---- MODULE Spec2Model ----
(***************************************************************************)
(* Model of the OCR legal document processor (backend/app.py,              *)
(* backend/utils/document_processor.py, backend/utils/ocr_processor.py).   *)
(*                                                                         *)
(* The texts of the comparison are sequences of one-character strings,     *)
(* all other texts are strings.  Each subsystem                            *)
(* (comparison, translation, document extraction, OCR) is a set of         *)
(* request handlers without shared writable state; the variables of a      *)
(* subsystem hold the inputs and the result of its last call, and each     *)
(* subsystem has its own specification.                                    *)
(***************************************************************************)
EXTENDS Integers, Sequences, FiniteSets, TLC

VARIABLES
    cmpIn,      \* the two texts of a comparison request
    cmpOut,     \* what compare_documents_with_libraries returned for them
    docIn,      \* a call of DocumentProcessor: the operation and its file(s)
    docOut,     \* what the call returned or raised
    trIn,       \* a translation call: the operation, its input, the services
    trOut,      \* what the call returned and the services it called
    ocrIn,      \* an OCR call: the operation, the image or file, the engines
    ocrOut,     \* the result the call returned
    apiIn,      \* an upload request: the handler and its file(s)
    apiOut,     \* the response, what the handler did, the files it left
    gemini,     \* the GeminiClient, the EasyOCR module and the handles they built
    req         \* a call of GeminiClient._make_request, turn by turn

vars == <<cmpIn, cmpOut, docIn, docOut, trIn, trOut, ocrIn, ocrOut, apiIn, apiOut,
          gemini, req>>

(***************************************************************************)
(* Bounds of the model.                                                    *)
(***************************************************************************)
\* longest text handed to the comparison
MaxTextLen == 3

\* most pages of a PDF
MaxPages == 2

\* most files of a batch
MaxBatch == 3

\* Python's None where a record is expected (a result, a confidence)
None == [type |-> "None"]

\* Python's None where a string is expected (a processing_method, a warning)
NoneStr == "<None>"

\* Python's None where a list is expected: "errors if errors else None"
\* turns the empty list into None, so a list field is never an empty list
\* and the empty sequence stands for None
NoneList == <<>>

Max(x, y) == IF x >= y THEN x ELSE y
Min(x, y) == IF x <= y THEN x ELSE y

(***************************************************************************)
(* Texts                                                                   *)
(***************************************************************************)
\* the characters of the modelled texts; "\n" is the line boundary
Chars == {"a", "b", "\n"}

SeqsUpTo(S, n) == UNION {[1..k -> S] : k \in 0..n}

Texts == SeqsUpTo(Chars, MaxTextLen)

(***************************************************************************)
(* app.py: compare_documents_with_libraries                                *)
(***************************************************************************)
\* str.splitlines(): the text cut at every line boundary; a trailing boundary
\* opens no further line
RECURSIVE SplitLoop(_, _, _, _)
SplitLoop(text, i, cur, acc) ==
    IF i > Len(text)
    THEN IF cur = <<>> THEN acc ELSE Append(acc, cur)
    ELSE IF text[i] = "\n"
         THEN SplitLoop(text, i + 1, <<>>, Append(acc, cur))
         ELSE SplitLoop(text, i + 1, Append(cur, text[i]), acc)

splitlines(text) == SplitLoop(text, 1, <<>>, <<>>)

\* difflib.SequenceMatcher.find_longest_match on a[alo..ahi], b[blo..bhi]
\* (bounds inclusive): the longest common block, the one starting earliest in
\* a, and of those the one starting earliest in b; <<alo, blo, 0>> when the
\* ranges share no element.  No junk: autojunk needs 200 elements.
BlockAt(a, b, i, j, k) == \A d \in 0..(k - 1) : a[i + d] = b[j + d]

Blocks(a, b, alo, ahi, blo, bhi) ==
    {m \in (alo..ahi) \X (blo..bhi) \X (1..Max(0, Min(ahi - alo, bhi - blo) + 1)) :
        /\ m[1] + m[3] - 1 <= ahi
        /\ m[2] + m[3] - 1 <= bhi
        /\ BlockAt(a, b, m[1], m[2], m[3])}

Better(m, n) ==
    \/ m[3] > n[3]
    \/ m[3] = n[3] /\ m[1] < n[1]
    \/ m[3] = n[3] /\ m[1] = n[1] /\ m[2] <= n[2]

find_longest_match(a, b, alo, ahi, blo, bhi) ==
    LET bs == Blocks(a, b, alo, ahi, blo, bhi)
    IN  IF bs = {} THEN <<alo, blo, 0>>
        ELSE CHOOSE m \in bs : \A n \in bs : Better(m, n)

\* the total size of SequenceMatcher.get_matching_blocks(): the longest block,
\* then the same to the left and to the right of it
RECURSIVE MatchedSize(_, _, _, _, _, _)
MatchedSize(a, b, alo, ahi, blo, bhi) ==
    LET m == find_longest_match(a, b, alo, ahi, blo, bhi)
    IN  IF m[3] = 0 THEN 0
        ELSE m[3]
             + MatchedSize(a, b, alo, m[1] - 1, blo, m[2] - 1)
             + MatchedSize(a, b, m[1] + m[3], ahi, m[2] + m[3], bhi)

\* round(x, 2) of the fraction num/den, in hundredths
RoundHundredths(num, den) == (2 * num * 100 + den) \div (2 * den)

\* round(SequenceMatcher(None, text1, text2).ratio() * 100, 2), in hundredths
\* of a percent: ratio() is 2.0 * matches / total length, and 1.0 for two
\* empty sequences
SimilarityWrong(text1, text2) ==
    LET total == Len(text1) + Len(text2)
        matches == MatchedSize(text1, text2, 1, Len(text1), 1, Len(text2))
    IN  IF total = 0 THEN 10000
        ELSE RoundHundredths(matches * 100, total)

Similarity(text1, text2) ==
    LET total == Len(text1) + Len(text2)
        matches == MatchedSize(text1, text2, 1, Len(text1), 1, Len(text2))
    IN  IF total = 0 THEN 10000
        ELSE RoundHundredths(2 * matches * 100, total)

\* lines[i] if i < len(lines) else '' (i counted from 0)
LineAt(lines, i) == IF i < Len(lines) THEN lines[i + 1] ELSE <<>>

\* the loop "for i in range(max_lines)" with its append
RECURSIVE DiffLoop(_, _, _, _, _)
DiffLoop(lines1, lines2, i, max_lines, differences) ==
    IF i >= max_lines THEN differences
    ELSE LET line1 == LineAt(lines1, i)
             line2 == LineAt(lines2, i)
         IN  DiffLoop(lines1, lines2, i + 1, max_lines,
                      IF line1 # line2
                      THEN Append(differences,
                                  [line_number |-> i + 1, text1 |-> line1, text2 |-> line2])
                      ELSE differences)

LineDifferencesWrong(lines1, lines2) ==
    DiffLoop(lines1, lines2, 0, Min(Len(lines1), Len(lines2)), <<>>)

LineDifferences(lines1, lines2) ==
    DiffLoop(lines1, lines2, 0, Max(Len(lines1), Len(lines2)), <<>>)

compare_documents_with_libraries(text1, text2) ==
    [similarity_percentage |-> Similarity(text1, text2),
     differences |-> LineDifferences(splitlines(text1), splitlines(text2))]

\* POST /api/compare reaching compare_documents_with_libraries with the two
\* texts of the request
Compare ==
    /\ cmpOut = None
    /\ cmpOut' = compare_documents_with_libraries(cmpIn.text1, cmpIn.text2)
    /\ UNCHANGED <<cmpIn, docIn, docOut, trIn, trOut, ocrIn, ocrOut, apiIn, apiOut, gemini, req>>

(***************************************************************************)
(* Python strings (TLA+ strings with Len, \o and SubSeq)                   *)
(***************************************************************************)
Whitespace == {" ", "\n", "\t", "\f", "\r"}

CharAt(s, i) == SubSeq(s, i, i)

startswith(s, prefix) ==
    Len(s) >= Len(prefix) /\ SubSeq(s, 1, Len(prefix)) = prefix

RECURSIVE lstrip(_)
lstrip(s) ==
    IF Len(s) > 0 /\ CharAt(s, 1) \in Whitespace
    THEN lstrip(SubSeq(s, 2, Len(s))) ELSE s

RECURSIVE rstrip(_)
rstrip(s) ==
    IF Len(s) > 0 /\ CharAt(s, Len(s)) \in Whitespace
    THEN rstrip(SubSeq(s, 1, Len(s) - 1)) ELSE s

\* str.strip()
strip(s) == rstrip(lstrip(s))

\* sep.join(parts)
RECURSIVE join(_, _)
join(sep, parts) ==
    IF parts = <<>> THEN ""
    ELSE IF Len(parts) = 1 THEN parts[1]
    ELSE parts[1] \o sep \o join(sep, Tail(parts))

(***************************************************************************)
(* Confidences: exact fractions num/den with den > 0                       *)
(***************************************************************************)
Rat(n, d) == [num |-> n, den |-> d]

RatAdd(x, y) == Rat(x.num * y.den + y.num * x.den, x.den * y.den)

RECURSIVE RatSum(_)
RatSum(xs) == IF xs = <<>> THEN Rat(0, 1) ELSE RatAdd(xs[1], RatSum(Tail(xs)))

RECURSIVE IntSum(_)
IntSum(xs) == IF xs = <<>> THEN 0 ELSE xs[1] + IntSum(Tail(xs))

\* sum(xs) / len(xs) for fractions xs, xs not empty
RatMean(xs) == LET t == RatSum(xs) IN Rat(t.num, t.den * Len(xs))

\* 0 <= x <= 100
InPercentRange(x) == x.num >= 0 /\ x.num <= 100 * x.den

(***************************************************************************)
(* document_processor.py: DocumentTypeDetector                             *)
(***************************************************************************)
SUPPORTED_EXTENSIONS ==
    [e \in {".pdf", ".doc", ".docx", ".txt", ".rtf", ".ppt", ".pptx", ".xls",
            ".xlsx", ".csv", ".jpg", ".jpeg", ".png", ".tiff", ".tif", ".bmp",
            ".gif", ".html", ".htm", ".md", ".json", ".xml"} |->
        CASE e = ".pdf" -> "application/pdf"
          [] e = ".doc" -> "application/msword"
          [] e = ".docx" -> "application/vnd.openxmlformats-officedocument.wordprocessingml.document"
          [] e \in {".txt"} -> "text/plain"
          [] e = ".rtf" -> "application/rtf"
          [] e = ".ppt" -> "application/vnd.ms-powerpoint"
          [] e = ".pptx" -> "application/vnd.openxmlformats-officedocument.presentationml.presentation"
          [] e = ".xls" -> "application/vnd.ms-excel"
          [] e = ".xlsx" -> "application/vnd.openxmlformats-officedocument.spreadsheetml.sheet"
          [] e = ".csv" -> "text/csv"
          [] e \in {".jpg", ".jpeg"} -> "image/jpeg"
          [] e = ".png" -> "image/png"
          [] e \in {".tiff", ".tif"} -> "image/tiff"
          [] e = ".bmp" -> "image/bmp"
          [] e = ".gif" -> "image/gif"
          [] e \in {".html", ".htm"} -> "text/html"
          [] e = ".md" -> "text/markdown"
          [] e = ".json" -> "application/json"
          [] e = ".xml" -> "application/xml"]

\* str.lower() on the suffixes of the model
lower(suffix) ==
    CASE suffix = ".PDF" -> ".pdf"
      [] suffix = ".XYZ" -> ".xyz"
      [] suffix = ".CSV" -> ".csv"
      [] suffix = ".RTF" -> ".rtf"
      [] OTHER -> suffix

\* Path(filepath).suffix.lower() and the MIME type: from the table, else by
\* sniffing (python-magic, mimetypes), else application/octet-stream
detect_file_type(file) ==
    LET file_ext == lower(file.suffix)
    IN  IF file_ext \in DOMAIN SUPPORTED_EXTENSIONS
        THEN [file_ext |-> file_ext, mime_type |-> SUPPORTED_EXTENSIONS[file_ext]]
        ELSE [file_ext |-> file_ext, mime_type |-> file.sniffed_mime]

is_supported(file) ==
    detect_file_type(file).file_ext \in DOMAIN SUPPORTED_EXTENSIONS

(***************************************************************************)
(* document_processor.py: the extractors                                   *)
(*                                                                         *)
(* A file is its suffix, whether it exists, and what the libraries do with *)
(* it: parse is "raise" when the parser of its format raises on it (a      *)
(* corrupt file), and the OCR fields give what the engines report.         *)
(***************************************************************************)
\* the text of a well-formed file
Body == "hello world text"

\* str(e) of the exception a library raises
LibMessage == "bad file"

\* an Optional[int] of DocumentMetadata: None is the empty set
NoInt == {}

Some(n) == {n}

\* len(text.split()): the runs of characters that are not whitespace
WordCount(text) ==
    Cardinality({i \in 1..Len(text) :
                    /\ CharAt(text, i) \notin Whitespace
                    /\ (i = 1 \/ CharAt(text, i - 1) \in Whitespace)})

\* the counts every extractor writes just before it returns:
\* len(text.split()) if text else 0, len(text) if text else 0
DocumentMetadata(text) ==
    [word_count |-> Some(WordCount(text)), character_count |-> Some(Len(text))]

ExtractedContent(text, processing_method, ocr_confidence, errors) ==
    [text |-> text,
     metadata |-> DocumentMetadata(text),
     processing_method |-> processing_method,
     ocr_confidence |-> ocr_confidence,
     errors |-> IF errors = <<>> THEN NoneList ELSE errors]

\* what pytesseract.image_to_string returns for a page or an image
OcrString(kind) == IF kind = "ok" THEN "scanned words here\n" ELSE "\f"

\* [int(conf) for conf in ocr_data['conf'] if int(conf) > 0]
RECURSIVE Positive(_)
Positive(conf) ==
    IF conf = <<>> THEN <<>>
    ELSE IF conf[1] > 0 THEN <<conf[1]>> \o Positive(Tail(conf))
    ELSE Positive(Tail(conf))

PageHeader(i) == "--- Page " \o ToString(i) \o " ---\n"

\* PDFExtractor._ocr_pdf, one turn of "for i, image in enumerate(images)":
\* the text part and the confidence the page adds (has = FALSE: none), or
\* raised = TRUE when the exception leaves the loop
OcrPdfPage(page, i) ==
    LET simple ==
            \* except Exception: fallback to simple OCR
            IF page.string = "raise"
            THEN [raised |-> TRUE, has |-> FALSE, text |-> "", conf |-> Rat(0, 1)]
            ELSE [raised |-> FALSE,
                  has |-> strip(OcrString(page.string)) # "",
                  text |-> PageHeader(i) \o strip(OcrString(page.string)),
                  conf |-> Rat(50, 1)]
        pos == Positive(page.conf)
    IN  IF page.data = "raise" \/ page.string = "raise" THEN simple
        ELSE IF page.conf # <<>> /\ pos = <<>> THEN simple   \* ZeroDivisionError
        ELSE [raised |-> FALSE,
              has |-> strip(OcrString(page.string)) # "",
              text |-> PageHeader(i) \o strip(OcrString(page.string)),
              conf |-> IF page.conf = <<>> THEN Rat(0, 1)
                       ELSE Rat(IntSum(pos), Len(pos))]

RECURSIVE OcrPdfLoop(_, _, _, _)
OcrPdfLoop(pages, i, text_parts, confidences) ==
    IF i > Len(pages)
    THEN [raised |-> FALSE,
          text |-> join("\n\n", text_parts),
          confidence |-> IF confidences # <<>> THEN RatMean(confidences) ELSE Rat(0, 1)]
    ELSE LET p == OcrPdfPage(pages[i], i)
         IN  IF p.raised
             THEN [raised |-> TRUE, text |-> "", confidence |-> Rat(0, 1)]
             ELSE IF p.has
             THEN OcrPdfLoop(pages, i + 1, Append(text_parts, p.text),
                             Append(confidences, p.conf))
             ELSE OcrPdfLoop(pages, i + 1, text_parts, confidences)

\* PDFExtractor._ocr_pdf: raises when pdf2image is missing or fails, or when
\* the simple OCR of a page fails
ocr_pdf(file) ==
    IF file.convert = "raise"
    THEN [raised |-> TRUE, text |-> "", confidence |-> Rat(0, 1)]
    ELSE OcrPdfLoop(file.pages, 1, <<>>, <<>>)

RECURSIVE PdfTextParts(_, _)
PdfTextParts(pages, i) ==
    IF i > Len(pages) THEN <<>>
    ELSE (IF pages[i].layer THEN <<PageHeader(i) \o strip(Body)>> ELSE <<>>)
         \o PdfTextParts(pages, i + 1)

\* PDFExtractor.extract
PDFExtractor_extract(file) ==
    LET ocr == ocr_pdf(file)
        failed(first) ==
            \* except Exception as e: the OCR fallback
            IF ocr.raised
            THEN ExtractedContent(
                     "Error: Could not extract text from PDF. " \o first,
                     NoneStr, None,
                     <<"PDF processing failed: " \o first,
                       "OCR fallback failed: OCR processing failed: " \o LibMessage>>)
            ELSE ExtractedContent(ocr.text, "ocr_fallback", ocr.confidence,
                                  <<"PDF processing failed: " \o first>>)
        text_parts == PdfTextParts(file.pages, 1)
    IN  IF file.parse = "raise" THEN failed(LibMessage)
        ELSE IF text_parts # <<>>
        THEN ExtractedContent(join("\n\n", text_parts), "text_extraction", None, <<>>)
        ELSE IF ocr.raised THEN failed("OCR processing failed: " \o LibMessage)
        ELSE ExtractedContent(ocr.text, "ocr", ocr.confidence, <<>>)

\* the extractors that parse with one library: the text of the file, or the
\* error text and the errors entry of their except branch
ParsedOrErrorSilent(file, what, error_text) ==
    IF file.parse = "raise"
    THEN [text |-> error_text \o LibMessage, errors |-> <<>>]
    ELSE [text |-> Body, errors |-> <<>>]

ParsedOrError(file, what, error_text) ==
    IF file.parse = "raise"
    THEN [text |-> error_text \o LibMessage,
          errors |-> <<what \o " processing failed: " \o LibMessage>>]
    ELSE [text |-> Body, errors |-> <<>>]

DOCXExtractor_extract(file) ==
    LET r == ParsedOrError(file, "DOCX", "Error: Could not extract text from DOCX. ")
    IN  ExtractedContent(r.text, "docx_extraction", None, r.errors)

\* DOCExtractor.extract: mammoth's warnings become errors entries
DOCExtractor_extract(file) ==
    LET r == ParsedOrError(file, "DOC", "Error: Could not extract text from DOC. ")
    IN  ExtractedContent(r.text, "doc_extraction", None,
                         IF file.parse = "ok" /\ file.warnings
                         THEN <<"warning">> ELSE r.errors)

PPTXExtractor_extract(file) ==
    LET r == ParsedOrError(file, "PPTX", "Error: Could not extract text from PPTX. ")
    IN  ExtractedContent(
            IF file.parse = "ok" THEN "--- Slide 1 ---\n" \o Body ELSE r.text,
            "pptx_extraction", None, r.errors)

\* ExcelExtractor.extract: file_path.endswith('.csv') sends the file to
\* pd.read_csv, every other file to pd.read_excel with openpyxl, which
\* raises on a file of comma-separated text
ExcelExtractor_extract(file) ==
    LET read_csv == file.suffix = ".csv"
        parsed == [file EXCEPT !.parse =
                      IF ~read_csv /\ lower(file.suffix) = ".csv" THEN "raise" ELSE @]
        r == ParsedOrError(parsed, "Excel", "Error: Could not extract data from Excel file. ")
    IN  ExtractedContent(
            IF parsed.parse = "ok" THEN "--- Sheet: Sheet1 ---\n" \o Body ELSE r.text,
            "excel_extraction", None, r.errors)

\* TextExtractor.extract reporting a confidence without OCR
TextExtractorConfident(file) ==
    ExtractedContent(Body, "text_extraction", Rat(100, 1), <<>>)

\* the characters of a file: an RTF file holds its text inside the markup
FileContent(file) ==
    IF lower(file.suffix) = ".rtf" THEN "{\\rtf1 " \o Body \o "}" ELSE Body

\* TextExtractor.extract: file_path.endswith('.rtf') sends the file through
\* striprtf; the other files are decoded with utf-8, then latin-1, which
\* decodes every file, and their characters are the text
TextExtractor_extract(file) ==
    LET r == ParsedOrError(file, "Text", "Error: Could not read text file. ")
    IN  IF file.parse = "ok" /\ file.suffix = ".rtf" /\ file.lib = "absent"
        THEN ExtractedContent("Error: RTF processing requires striprtf package",
                              "text_extraction", None,
                              <<"striprtf not available for RTF processing">>)
        ELSE IF file.parse = "ok" /\ file.suffix # ".rtf"
        THEN ExtractedContent(FileContent(file), "text_extraction", None, <<>>)
        ELSE ExtractedContent(r.text, "text_extraction", None, r.errors)

HTMLExtractor_extract(file) ==
    LET r == ParsedOrError(file, "HTML", "Error: Could not extract text from HTML. ")
    IN  ExtractedContent(r.text, "html_extraction", None, r.errors)

MarkdownExtractor_extract(file) ==
    LET r == ParsedOrError(file, "Markdown", "Error: Could not extract text from Markdown. ")
    IN  ExtractedContent(r.text, "markdown_extraction", None, r.errors)

JSONExtractor_extract(file) ==
    LET r == ParsedOrError(file, "JSON", "Error: Could not extract text from JSON. ")
    IN  ExtractedContent(r.text, "json_extraction", None, r.errors)

XMLExtractor_extract(file) ==
    LET r == ParsedOrError(file, "XML", "Error: Could not extract text from XML. ")
    IN  ExtractedContent(r.text, "xml_extraction", None, r.errors)

\* the EasyOCR results kept by "if confidence > 0.3" (confidences in hundredths)
RECURSIVE Confident(_)
Confident(results) ==
    IF results = <<>> THEN <<>>
    ELSE IF results[1].confidence > 30
    THEN <<results[1]>> \o Confident(Tail(results))
    ELSE Confident(Tail(results))

\* ImageExtractor.extract
ImageExtractor_extract(file) ==
    LET kept == Confident(file.easyocr.results)
        easy ==
            \* "if self.easyocr_reader:" with its try and except
            IF file.easyocr.state = "ok"
            THEN [text |-> join(" ", [k \in 1..Len(kept) |-> kept[k].text]),
                  conf |-> IF kept # <<>>
                           THEN Rat(IntSum([k \in 1..Len(kept) |-> kept[k].confidence]),
                                    100 * Len(kept))
                           ELSE Rat(0, 1),
                  method |-> "easyocr", errors |-> <<>>]
            ELSE [text |-> "", conf |-> Rat(0, 1), method |-> "tesseract_ocr",
                  errors |-> IF file.easyocr.state = "raise"
                             THEN <<"EasyOCR failed: " \o LibMessage>> ELSE <<>>]
        pos == Positive(file.tess.conf)
        tesseract ==
            \* "if not text or len(text.strip()) < 10:" with its two try blocks
            IF file.tess.string = "raise"
            THEN [text |-> "Error: Could not extract text from image. " \o LibMessage,
                  conf |-> easy.conf, method |-> easy.method,
                  errors |-> Append(easy.errors, "Tesseract OCR failed: " \o LibMessage)]
            ELSE IF file.tess.data = "raise"
            THEN [text |-> OcrString(file.tess.string), conf |-> Rat(50, 1),
                  method |-> "tesseract_ocr", errors |-> easy.errors]
            ELSE [text |-> OcrString(file.tess.string),
                  conf |-> IF pos # <<>> THEN Rat(IntSum(pos), Len(pos)) ELSE Rat(0, 1),
                  method |-> "tesseract_ocr", errors |-> easy.errors]
        r == IF easy.text = "" \/ Len(strip(easy.text)) < 10 THEN tesseract ELSE easy
    IN  IF file.parse = "raise"
        THEN ExtractedContent("Error: Could not process image. " \o LibMessage,
                              "tesseract_ocr", Rat(0, 1),
                              <<"Image processing failed: " \o LibMessage>>)
        ELSE ExtractedContent(
                 IF strip(r.text) = ""
                 THEN "Warning: No text detected in image. The image may not contain readable text."
                 ELSE r.text,
                 r.method, r.conf, r.errors)

(***************************************************************************)
(* document_processor.py: DocumentProcessor                                *)
(***************************************************************************)
\* self.extractors, each with its supported_extensions
extractors ==
    << [extractor_name |-> "pdf", supported_extensions |-> <<".pdf">>],
       [extractor_name |-> "docx", supported_extensions |-> <<".docx">>],
       [extractor_name |-> "doc", supported_extensions |-> <<".doc">>],
       [extractor_name |-> "pptx", supported_extensions |-> <<".pptx">>],
       [extractor_name |-> "excel", supported_extensions |-> <<".xlsx", ".xls", ".csv">>],
       [extractor_name |-> "text", supported_extensions |-> <<".txt", ".rtf">>],
       [extractor_name |-> "image_ocr",
        supported_extensions |-> <<".jpg", ".jpeg", ".png", ".tiff", ".tif", ".bmp", ".gif">>],
       [extractor_name |-> "html", supported_extensions |-> <<".html", ".htm">>],
       [extractor_name |-> "markdown", supported_extensions |-> <<".md", ".markdown">>],
       [extractor_name |-> "json", supported_extensions |-> <<".json">>],
       [extractor_name |-> "xml", supported_extensions |-> <<".xml">>] >>

Range(f) == {f[i] : i \in DOMAIN f}

\* get_supported_formats(): every extension some extractor lists
get_supported_formats ==
    UNION {Range(extractors[k].supported_extensions) : k \in DOMAIN extractors}

\* self.extractor_map: extension -> name of the extractor, the last one
\* listing the extension winning
extractor_map ==
    [e \in get_supported_formats |->
        LET k == CHOOSE k \in DOMAIN extractors :
                    /\ e \in Range(extractors[k].supported_extensions)
                    /\ \A m \in DOMAIN extractors :
                          e \in Range(extractors[m].supported_extensions) => m <= k
        IN  extractors[k].extractor_name]

\* extractor.extract(file_path, filename) of the named extractor
extract(extractor_name, file) ==
    CASE extractor_name = "pdf" -> PDFExtractor_extract(file)
      [] extractor_name = "docx" -> DOCXExtractor_extract(file)
      [] extractor_name = "doc" -> DOCExtractor_extract(file)
      [] extractor_name = "pptx" -> PPTXExtractor_extract(file)
      [] extractor_name = "excel" -> ExcelExtractor_extract(file)
      [] extractor_name = "text" -> TextExtractor_extract(file)
      [] extractor_name = "image_ocr" -> ImageExtractor_extract(file)
      [] extractor_name = "html" -> HTMLExtractor_extract(file)
      [] extractor_name = "markdown" -> MarkdownExtractor_extract(file)
      [] extractor_name = "json" -> JSONExtractor_extract(file)
      [] extractor_name = "xml" -> XMLExtractor_extract(file)

Raise(exception, message) ==
    [kind |-> "raise", exception |-> exception, message |-> message]

Return(value) == [kind |-> "return", value |-> value]

\* the extensions as the message of the ValueError lists them
SupportedList == ".bmp, .csv, .doc, .docx, .gif, .htm, .html, .jpeg, .jpg, .json, .markdown, .md, .pdf, .png, .pptx, .rtf, .tif, .tiff, .txt, .xls, .xlsx, .xml"

\* DocumentProcessor.process_document
process_document(file) ==
    LET file_ext == lower(file.suffix)
    IN  IF ~file.exists
        THEN Raise("FileNotFoundError", "File not found: " \o file.suffix)
        ELSE IF ~is_supported(file)
        THEN Raise("ValueError", "Unsupported file type '" \o file_ext
                                 \o "'. Supported formats: " \o SupportedList)
        ELSE IF file_ext \notin DOMAIN extractor_map
        THEN Raise("ValueError", "No extractor found for file type: " \o file_ext)
        ELSE Return(extract(extractor_map[file_ext], file))

\* DocumentProcessor.process_multiple_documents: one result per path, the
\* error result for a path whose process_document raised
RECURSIVE process_multiple_documents(_)
process_multiple_documents(file_paths) ==
    IF file_paths = <<>> THEN <<>>
    ELSE LET r == process_document(file_paths[1])
         IN  <<IF r.kind = "return" THEN r.value
               ELSE [text |-> "Error processing file: " \o r.message,
                     metadata |-> [word_count |-> NoInt, character_count |-> NoInt],
                     processing_method |-> NoneStr,
                     ocr_confidence |-> None,
                     errors |-> <<r.message>>]>>
             \o process_multiple_documents(Tail(file_paths))

(***************************************************************************)
(* The files of the model                                                  *)
(***************************************************************************)
\* per-token confidences an OCR engine reports: none, no positive one,
\* ordinary ones, one above 100
ConfLists == {<<>>, <<-1>>, <<-1, 96, 70>>, <<150>>}

\* what Tesseract does with an image: image_to_string ("blank": no text),
\* image_to_data and its 'conf' column
TessEnvs ==
    {t \in [string : {"ok", "blank", "raise"}, data : {"ok", "raise"}, conf : ConfLists] :
        t.data = "raise" => t.conf = <<>>}

DefaultTess == [string |-> "ok", data |-> "ok", conf |-> <<-1, 96, 70>>]

\* a PDF page: whether it has a text layer, and what Tesseract does with its image
Pages ==
    {p \in [layer : BOOLEAN, string : {"ok", "blank", "raise"}, data : {"ok", "raise"},
            conf : ConfLists] :
        p.data = "raise" => p.conf = <<>>}

DefaultPage == [layer |-> TRUE, string |-> "ok", data |-> "ok", conf |-> <<-1, 96, 70>>]

\* what the EasyOCR reader does: absent (not installed), raises, or its
\* (text, confidence) results, the confidences in hundredths
EasyEnvs ==
    {[state |-> "absent", results |-> <<>>],
     [state |-> "raise", results |-> <<>>],
     [state |-> "ok", results |-> <<>>],
     [state |-> "ok", results |-> <<[text |-> "faint", confidence |-> 20]>>],
     [state |-> "ok", results |-> <<[text |-> "ab", confidence |-> 95]>>],
     [state |-> "ok", results |-> <<[text |-> "scanned words", confidence |-> 90],
                                    [text |-> "here", confidence |-> 80]>>],
     [state |-> "ok", results |-> <<[text |-> "scanned words", confidence |-> 15000]>>]}

DefaultEasy == [state |-> "absent", results |-> <<>>]

File(suffix, exists, parse) ==
    [suffix |-> suffix, exists |-> exists, parse |-> parse,
     lib |-> "present", warnings |-> FALSE, sniffed_mime |-> "application/octet-stream",
     convert |-> "ok", pages |-> <<DefaultPage>>,
     easyocr |-> DefaultEasy, tess |-> DefaultTess]

PdfFiles ==
    {[File(".pdf", TRUE, parse) EXCEPT !.convert = convert, !.pages = pages] :
        parse \in {"ok", "raise"}, convert \in {"ok", "raise"},
        pages \in UNION {[1..n -> Pages] : n \in 1..MaxPages}}

ImageFiles ==
    {[File(".png", TRUE, parse) EXCEPT !.easyocr = easyocr, !.tess = tess] :
        parse \in {"ok", "raise"}, easyocr \in EasyEnvs, tess \in TessEnvs}

Suffixes ==
    DOMAIN SUPPORTED_EXTENSIONS
        \cup {".markdown", ".xyz", ".XYZ", ".zip", ".PDF", ".CSV", ".RTF", ""}

PlainFiles ==
    {File(suffix, exists, parse) :
        suffix \in Suffixes, exists \in BOOLEAN, parse \in {"ok", "raise"}}
    \cup {[File(".rtf", TRUE, "ok") EXCEPT !.lib = "absent"],
          [File(".RTF", TRUE, "ok") EXCEPT !.lib = "absent"],
          [File(".doc", TRUE, "ok") EXCEPT !.warnings = TRUE],
          [File(".zip", TRUE, "ok") EXCEPT !.sniffed_mime = "application/zip"]}

Files == PdfFiles \cup ImageFiles \cup PlainFiles

\* the files a batch is made of
BatchFiles ==
    {File(".txt", TRUE, "ok"),
     File(".json", TRUE, "raise"),
     File(".json", TRUE, "ok"),
     File(".ppt", TRUE, "raise"),
     File(".pdf", TRUE, "raise"),
     File(".pdf", FALSE, "ok"),
     File(".xyz", TRUE, "ok"),
     [File(".pdf", TRUE, "raise") EXCEPT !.convert = "raise"]}

Batches == UNION {[1..n -> BatchFiles] : n \in 0..MaxBatch}

(***************************************************************************)
(* Calls of the DocumentProcessor                                          *)
(***************************************************************************)
ProcessDocument ==
    /\ docOut = None
    /\ docIn # None
    /\ docIn.op = "process_document"
    /\ docOut' = process_document(docIn.file)
    /\ UNCHANGED <<cmpIn, cmpOut, docIn, trIn, trOut, ocrIn, ocrOut, apiIn, apiOut, gemini, req>>

ProcessMultipleDocuments ==
    /\ docOut = None
    /\ docIn # None
    /\ docIn.op = "process_multiple_documents"
    /\ docOut' = Return(process_multiple_documents(docIn.file_paths))
    /\ UNCHANGED <<cmpIn, cmpOut, docIn, trIn, trOut, ocrIn, ocrOut, apiIn, apiOut, gemini, req>>

(***************************************************************************)
(* document_processor.py: the table records of the PDF, DOCX and Excel     *)
(* extractors                                                              *)
(*                                                                         *)
(* A table as a library hands it over is a sequence of rows, a row a       *)
(* sequence of cells, the first row the header.  A dict is a function from *)
(* its keys, a list a sequence, so the number of cells of a data entry is  *)
(* the size of its domain in both forms.                                   *)
(***************************************************************************)
\* most rows of a table and most cells of a row in the model
MaxRows == 3

MaxCols == 2

\* the widest row
Widest(rows) ==
    IF rows = <<>> THEN 0
    ELSE CHOOSE n \in {Len(rows[k]) : k \in 1..Len(rows)} :
            \A k \in 1..Len(rows) : Len(rows[k]) <= n

\* the labels of pandas' default RangeIndex
RangeName == <<"0", "1", "2", "3">>

\* one entry of df.to_dict('records'): a key per distinct column label (of
\* columns with the same label the last one is kept), NaN for a missing cell
Record(columns, row) ==
    [name \in {columns[j] : j \in 1..Len(columns)} |->
        LET j == CHOOSE i \in 1..Len(columns) :
                    /\ columns[i] = name
                    /\ \A h \in 1..Len(columns) : columns[h] = name => h <= i
        IN  IF j <= Len(row) THEN row[j] ELSE "NaN"]

\* pd.DataFrame(data, columns=header if header else None): pandas pads the
\* short rows and raises ValueError when the width of the data is not the
\* number of columns passed
DataFrame(data, header) ==
    LET width == Widest(data)
        columns == IF header # <<>> THEN header
                   ELSE [j \in 1..width |-> RangeName[j]]
    IN  [raised |-> header # <<>> /\ width # Len(header),
         columns |-> columns,
         records |-> [k \in 1..Len(data) |-> Record(columns, data[k])]]

\* PDFExtractor._extract_tables_pdfplumber for one table of page.extract_tables()
extract_tables_pdfplumber(table) ==
    IF Len(table) > 1
    THEN LET df == DataFrame(Tail(table), table[1])
         IN  IF ~df.raised
             THEN <<[data |-> df.records, headers |-> df.columns,
                     rows |-> Len(df.records), columns |-> Len(df.columns)]>>
             ELSE \* except Exception: the raw table, header row included
                  <<[data |-> table, headers |-> table[1],
                     rows |-> Len(table), columns |-> Len(table[1])]>>
    ELSE <<>>

\* DOCXExtractor.extract: the record of one table of doc.tables
docx_tables(table) ==
    LET headers == table[1]
        table_data == Tail(table)
        df == DataFrame(table_data, headers)
    IN  IF table_data # <<>>
        THEN IF ~df.raised
             THEN <<[data |-> df.records, headers |-> headers,
                     rows |-> Len(df.records), columns |-> Len(df.columns)]>>
             ELSE <<[data |-> table_data, headers |-> headers,
                     rows |-> Len(table_data), columns |-> Len(headers)]>>
        ELSE <<>>

\* ExcelExtractor.extract: the record of one sheet; df is what pandas read,
\* its column labels distinct and its rows as wide as its columns
excel_tables(df) ==
    IF df.rows = <<>> \/ df.columns = <<>>     \* if df.empty: continue
    THEN <<>>
    ELSE <<[data |-> [k \in 1..Len(df.rows) |-> Record(df.columns, df.rows[k])],
            headers |-> df.columns,
            rows |-> Len(df.rows),
            columns |-> Len(df.columns)]>>

Cells == {"a", "b"}

TableRows == UNION {[1..n -> Cells] : n \in 0..MaxCols}

\* the tables pdfplumber and python-docx return
RawTables == UNION {[1..m -> TableRows] : m \in 1..MaxRows}

\* the sheets pandas reads: a repeated label comes back as "a.1"
Sheets ==
    UNION {[columns : {columns}, rows : UNION {[1..m -> [1..Len(columns) -> Cells]] :
                                                  m \in 0..MaxRows}] :
              columns \in {<<"a">>, <<"a", "b">>, <<"a", "a.1">>}}

PdfTables ==
    /\ docOut = None
    /\ docIn # None
    /\ docIn.op = "pdf_tables"
    /\ docOut' = Return(extract_tables_pdfplumber(docIn.table))
    /\ UNCHANGED <<cmpIn, cmpOut, docIn, trIn, trOut, ocrIn, ocrOut, apiIn, apiOut, gemini, req>>

DocxTables ==
    /\ docOut = None
    /\ docIn # None
    /\ docIn.op = "docx_tables"
    /\ docOut' = Return(docx_tables(docIn.table))
    /\ UNCHANGED <<cmpIn, cmpOut, docIn, trIn, trOut, ocrIn, ocrOut, apiIn, apiOut, gemini, req>>

ExcelTables ==
    /\ docOut = None
    /\ docIn # None
    /\ docIn.op = "excel_tables"
    /\ docOut' = Return(excel_tables(docIn.df))
    /\ UNCHANGED <<cmpIn, cmpOut, docIn, trIn, trOut, ocrIn, ocrOut, apiIn, apiOut, gemini, req>>

(***************************************************************************)
(* app.py: translate_with_libraries and POST /api/translate                *)
(*                                                                         *)
(* A translation service is an external collaborator: per chunk it answers *)
(* "ok" (a translation), "empty" (success with an empty translation),      *)
(* "fail" (a non-success response) or "raise" (the request, a timeout or   *)
(* the decoding of the answer raises).                                     *)
(***************************************************************************)
\* characters per chunk of translate_with_libraries
ChunkSize == 500

\* the translation a service returns for a chunk
Translation(chunk, code) == "<" \o code \o ">" \o chunk

\* language_codes.get(target_language, target_language.lower()[:2])
TargetCode(target_language) ==
    CASE target_language = "Spanish" -> "es"
      [] target_language = "Hindi" -> "hi"
      [] target_language = "English" -> "en"
      [] OTHER -> target_language

\* [text[i:i+500] for i in range(0, len(text), 500)]
RECURSIVE SliceChunks(_, _)
SliceChunks(text, i) ==
    IF i >= Len(text) THEN <<>>
    ELSE <<SubSeq(text, i + 1, Min(i + ChunkSize, Len(text)))>>
         \o SliceChunks(text, i + ChunkSize)

Call(service, k) == [service |-> service, chunk |-> k]

\* one turn of "for chunk in chunks": what is appended to translated_chunks
\* (part, when appended) and the services called for the chunk
TranslateChunk(chunk, k, code, env) ==
    IF strip(chunk) = ""
    THEN [appended |-> FALSE, part |-> "", calls |-> <<>>]
    ELSE CASE env.mymemory[k] = "ok" ->
                [appended |-> TRUE, part |-> Translation(chunk, code),
                 calls |-> <<Call("mymemory", k)>>]
           [] env.mymemory[k] = "empty" ->
                [appended |-> TRUE, part |-> "",
                 calls |-> <<Call("mymemory", k)>>]
           [] env.mymemory[k] = "raise" ->
                \* except Exception: the chunk itself, no other service
                [appended |-> TRUE, part |-> chunk,
                 calls |-> <<Call("mymemory", k)>>]
           [] env.mymemory[k] = "fail" ->
                [appended |-> TRUE,
                 part |-> IF env.google[k] = "ok" THEN Translation(chunk, code)
                          ELSE chunk,
                 calls |-> <<Call("mymemory", k), Call("google", k)>>]

RECURSIVE TranslateLoop(_, _, _, _, _, _)
TranslateLoop(chunks, k, code, env, translated_chunks, calls) ==
    IF k > Len(chunks)
    THEN [translated_chunks |-> translated_chunks, calls |-> calls]
    ELSE LET c == TranslateChunk(chunks[k], k, code, env)
         IN  TranslateLoop(chunks, k + 1, code, env,
                           IF c.appended THEN Append(translated_chunks, c.part)
                           ELSE translated_chunks,
                           calls \o c.calls)

\* the end of translate_with_libraries: the chunks joined under a header, or
\* the failure notice of the outer except for an empty result
TranslationResult(text, target_language, translated_chunks) ==
    LET final_translation == join(" ", translated_chunks)
    IN  IF strip(final_translation) # ""
        THEN "[Translated to " \o target_language \o "]\n\n" \o final_translation
        ELSE "[Translation failed - Translation produced empty result]\n\n" \o text

\* translate_with_libraries: the returned string and the services called
translate_with_libraries(text, target_language, env) ==
    LET loop == TranslateLoop(SliceChunks(text, 0), 1, TargetCode(target_language),
                              env, <<>>, <<>>)
    IN  IF ~env.requests_installed
        THEN [result |-> "[Translation failed - No module named 'requests']\n\n" \o text,
              calls |-> <<>>]
        ELSE [result |-> TranslationResult(text, target_language,
                                           loop.translated_chunks),
              calls |-> loop.calls]

\* translate_document: the JSON body is [has_text, text, target_language]
translate_document(request, env) ==
    IF ~request.has_text
    THEN [status |-> 400, success |-> FALSE, translated_text |-> NoneStr,
          error |-> "Text is required", calls |-> <<>>]
    ELSE IF strip(request.text) = ""
    THEN [status |-> 400, success |-> FALSE, translated_text |-> NoneStr,
          error |-> "Text cannot be empty", calls |-> <<>>]
    ELSE IF request.target_language \in {"English", "english"}
    THEN [status |-> 200, success |-> TRUE,
          translated_text |-> "[Already in " \o request.target_language \o "]\n\n"
                              \o request.text,
          error |-> NoneStr, calls |-> <<>>]
    ELSE LET t == translate_with_libraries(request.text, request.target_language, env)
         IN  [status |-> 200, success |-> TRUE, translated_text |-> t.result,
              error |-> NoneStr, calls |-> t.calls]

(***************************************************************************)
(* ocr_processor.py: auto_translate_to_english and its three services      *)
(***************************************************************************)
SentenceEnd == {".", "!", "?"}

\* the end of the whitespace run that starts at position i
RECURSIVE RunEnd(_, _)
RunEnd(text, i) ==
    IF i < Len(text) /\ CharAt(text, i + 1) \in Whitespace
    THEN RunEnd(text, i + 1) ELSE i

\* re.split(r'(?<=[.!?])\s+', text): the positions where a whitespace run
\* that follows a sentence end starts
SentenceCuts(text) ==
    {i \in 2..Len(text) : /\ CharAt(text, i) \in Whitespace
                          /\ CharAt(text, i - 1) \in SentenceEnd}

\* the pieces between the cuts, each whitespace run removed
RECURSIVE SplitSentences(_, _, _)
SplitSentences(text, start, cuts) ==
    LET ahead == {i \in cuts : i >= start}
        cut == CHOOSE i \in ahead : \A j \in ahead : i <= j
    IN  IF ahead = {} THEN <<SubSeq(text, start, Len(text))>>
        ELSE <<SubSeq(text, start, cut - 1)>>
             \o SplitSentences(text, RunEnd(text, cut) + 1, cuts)

\* the loop "for sentence in sentences" of split_text_for_translation
RECURSIVE GroupSentences(_, _, _, _, _, _)
GroupSentences(sentences, k, max_length, chunks, current_chunk, current_length) ==
    IF k > Len(sentences)
    THEN IF current_chunk # <<>> THEN Append(chunks, join(" ", current_chunk))
         ELSE chunks
    ELSE IF current_length + Len(sentences[k]) > max_length /\ current_chunk # <<>>
    THEN GroupSentences(sentences, k + 1, max_length,
                        Append(chunks, join(" ", current_chunk)),
                        <<sentences[k]>>, Len(sentences[k]))
    ELSE GroupSentences(sentences, k + 1, max_length, chunks,
                        Append(current_chunk, sentences[k]),
                        current_length + Len(sentences[k]))

split_text_for_translation(text, max_length) ==
    IF Len(text) <= max_length THEN <<text>>
    ELSE GroupSentences(SplitSentences(text, 1, SentenceCuts(text)), 1, max_length,
                        <<>>, <<>>, 0)

\* Python values a translation function returns: a dict or a str
Dict(success, translated_text) ==
    [type |-> "dict", success |-> success, translated_text |-> translated_text]

Str(value) == [type |-> "str", value |-> value]

\* "if translated": a dict with entries is true, a str is true unless empty
Truthy(v) == v.type = "dict" \/ v.value # ""

\* "translated != text" with text a str: a dict never equals a str
NotEqualStr(v, text) == v.type # "str" \/ v.value # text

\* the chunks of a service that are not blank
RECURSIVE NonBlank(_)
NonBlank(chunks) ==
    IF chunks = <<>> THEN <<>>
    ELSE (IF strip(chunks[1]) = "" THEN <<>> ELSE <<chunks[1]>>)
         \o NonBlank(Tail(chunks))

\* characters per request of the Hugging Face and MyMemory services
ServiceMaxLength == 500

\* characters per request of googletrans
GoogleMaxLength == 5000

\* translate_with_huggingface: fails without a token, on an HTTP error and on
\* an exception; an unexpected 200 answer keeps the chunk ("odd")
translate_with_huggingface(text, source_lang, env) ==
    LET chunks == NonBlank(split_text_for_translation(text, ServiceMaxLength))
    IN  IF env.huggingface \in {"no_token", "fail", "raise"}
           /\ (env.huggingface = "no_token" \/ chunks # <<>>)
        THEN Dict(FALSE, text)
        ELSE Dict(TRUE, join(" ", [k \in 1..Len(chunks) |->
                                      IF env.huggingface = "ok"
                                      THEN Translation(chunks[k], "en")
                                      ELSE chunks[k]]))

\* translate_with_mymemory
translate_with_mymemory(text, source_lang, env) ==
    LET chunks == NonBlank(split_text_for_translation(text, ServiceMaxLength))
    IN  IF env.mymemory_en \in {"fail", "raise"} /\ chunks # <<>>
        THEN Dict(FALSE, text)
        ELSE Dict(TRUE, join(" ", [k \in 1..Len(chunks) |->
                                      Translation(chunks[k], "en")]))

\* translate_with_googletrans: fails when googletrans is not installed
translate_with_googletrans(text, source_lang, env) ==
    LET chunks == NonBlank(split_text_for_translation(text, GoogleMaxLength))
    IN  IF env.googletrans = "not_installed"
           \/ (env.googletrans = "raise" /\ chunks # <<>>)
        THEN Dict(FALSE, text)
        ELSE Dict(TRUE, join(" ", [k \in 1..Len(chunks) |->
                                      Translation(chunks[k], "en")]))

\* auto_translate_to_english: the value returned and the services called.
\* No service function raises, so no except branch is taken.
auto_translate_to_english(text, source_language_code, env) ==
    LET hf == translate_with_huggingface(text, source_language_code, env)
        mm == translate_with_mymemory(text, source_language_code, env)
        gt == translate_with_googletrans(text, source_language_code, env)
    IN  IF Truthy(hf) /\ NotEqualStr(hf, text)
        THEN [value |-> hf, calls |-> <<"huggingface">>]
        ELSE IF Truthy(mm) /\ NotEqualStr(mm, text)
        THEN [value |-> mm, calls |-> <<"huggingface", "mymemory">>]
        ELSE IF Truthy(gt) /\ NotEqualStr(gt, text)
        THEN [value |-> gt, calls |-> <<"huggingface", "mymemory", "googletrans">>]
        ELSE [value |-> Str(text),
              calls |-> <<"huggingface", "mymemory", "googletrans">>]

(***************************************************************************)
(* The translation requests of the model                                   *)
(***************************************************************************)
RECURSIVE Repeat(_, _)
Repeat(s, n) ==
    IF n = 0 THEN ""
    ELSE IF n % 2 = 0 THEN LET half == Repeat(s, n \div 2) IN half \o half
    ELSE s \o Repeat(s, n - 1)

\* a one-character text, a short text, blank texts, and texts of more than
\* one chunk (the second one with a blank last chunk)
TranslateTexts ==
    {"x", "hola mundo. adios", " ", "",
     Repeat("hola mundo adios. ", 29),
     Repeat("a", ChunkSize) \o "  "}

\* most chunks of a text of the model
MaxChunks == 2

TranslateEnvs ==
    [requests_installed : BOOLEAN,
     mymemory : [1..MaxChunks -> {"ok", "empty", "fail", "raise"}],
     google : [1..MaxChunks -> {"ok", "fail", "raise"}]]

AutoEnvs ==
    [huggingface : {"no_token", "ok", "odd", "fail", "raise"},
     mymemory_en : {"ok", "fail", "raise"},
     googletrans : {"ok", "not_installed", "raise"}]

\* POST /api/translate
TranslateDocument ==
    /\ trOut = None
    /\ trIn # None
    /\ trIn.op = "translate_document"
    /\ trOut' = translate_document(trIn.request, trIn.env)
    /\ UNCHANGED <<cmpIn, cmpOut, docIn, docOut, trIn, ocrIn, ocrOut, apiIn, apiOut, gemini, req>>

\* a call of auto_translate_to_english
AutoTranslateToEnglish ==
    /\ trOut = None
    /\ trIn # None
    /\ trIn.op = "auto_translate_to_english"
    /\ trOut' = auto_translate_to_english(trIn.text, trIn.source, trIn.env)
    /\ UNCHANGED <<cmpIn, cmpOut, docIn, docOut, trIn, ocrIn, ocrOut, apiIn, apiOut, gemini, req>>

(***************************************************************************)
(* ocr_processor.py: translate_text                                        *)
(*                                                                         *)
(* sent_tokenize is NLTK's sentence tokenizer: it is taken to cut where    *)
(* the regular expression of split_text_for_translation cuts, and it       *)
(* returns no empty sentence.  The translator answers per chunk "ok" (a    *)
(* translation), "empty" (an empty translation) or "raise".                *)
(***************************************************************************)
\* characters per chunk of translate_text
TranslateTextLimit == 500

RECURSIVE NonEmpty(_)
NonEmpty(parts) ==
    IF parts = <<>> THEN <<>>
    ELSE (IF parts[1] = "" THEN <<>> ELSE <<parts[1]>>) \o NonEmpty(Tail(parts))

sent_tokenize(text) ==
    LET stripped == strip(text)
    IN  NonEmpty(SplitSentences(stripped, 1, SentenceCuts(stripped)))

\* the loop "for sentence in sent_tokenize(text)" of translate_text and the
\* "if current_chunk" after it
RECURSIVE BuildChunks(_, _, _, _, _)
BuildChunks(sentences, k, chunks, current_chunk, current_length) ==
    IF k > Len(sentences)
    THEN IF current_chunk # <<>> THEN Append(chunks, join(" ", current_chunk))
         ELSE chunks
    ELSE LET sent_length == Len(sentences[k]) + 1
         IN  IF current_length + sent_length > TranslateTextLimit
             THEN BuildChunks(sentences, k + 1,
                              Append(chunks, join(" ", current_chunk)),
                              <<sentences[k]>>, sent_length)
             ELSE BuildChunks(sentences, k + 1, chunks,
                              Append(current_chunk, sentences[k]),
                              current_length + sent_length)

\* the loop "for chunk in chunks" of translate_text
RECURSIVE TranslateChunks(_, _, _, _)
TranslateChunks(chunks, k, target_language, translator) ==
    IF k > Len(chunks) THEN <<>>
    ELSE (CASE translator[k] = "ok" -> <<Translation(chunks[k], target_language)>>
            [] translator[k] = "empty" -> <<>>       \* "if translated:" is false
            [] translator[k] = "raise" -> <<chunks[k]>>)
         \o TranslateChunks(chunks, k + 1, target_language, translator)

\* translate_text: the chunks built, the entries kept and the string returned
translate_text(text, target_language, translator) ==
    IF text = "" \/ target_language = ""
    THEN [chunks |-> <<>>, translated_chunks |-> <<>>, result |-> ""]
    ELSE LET chunks == BuildChunks(sent_tokenize(text), 1, <<>>, <<>>, 0)
             translated_chunks == TranslateChunks(chunks, 1, target_language, translator)
         IN  [chunks |-> chunks, translated_chunks |-> translated_chunks,
              result |-> join("\n\n", translated_chunks)]

\* most characters of a text handed to split_text_for_translation alone
MaxSplitLen == 4

SplitChars == {"a", ".", " "}

RECURSIVE Concat(_)
Concat(parts) == IF parts = <<>> THEN "" ELSE parts[1] \o Concat(Tail(parts))

SplitTexts == {Concat(s) : s \in UNION {[1..n -> SplitChars] : n \in 0..MaxSplitLen}}

\* a sentence of more than one chunk, sentences that fill a chunk, and
\* short texts
LongTexts ==
    {"x", "hola mundo. adios", "",
     Repeat("hola mundo adios. ", 29),
     Repeat("a", TranslateTextLimit) \o ". fin.",
     Repeat("a", ChunkSize) \o "  "}

\* most chunks translate_text builds from a text of the model
MaxBuilt == 3

Translators == [1..MaxBuilt -> {"ok", "empty", "raise"}]

\* a call of split_text_for_translation
SplitTextForTranslation ==
    /\ trOut = None
    /\ trIn # None
    /\ trIn.op = "split_text_for_translation"
    /\ trOut' = [chunks |-> split_text_for_translation(trIn.text, trIn.max_length)]
    /\ UNCHANGED <<cmpIn, cmpOut, docIn, docOut, trIn, ocrIn, ocrOut, apiIn, apiOut, gemini, req>>

\* a call of translate_text
TranslateText ==
    /\ trOut = None
    /\ trIn # None
    /\ trIn.op = "translate_text"
    /\ trOut' = translate_text(trIn.text, trIn.target_language, trIn.translator)
    /\ UNCHANGED <<cmpIn, cmpOut, docIn, docOut, trIn, ocrIn, ocrOut, apiIn, apiOut, gemini, req>>

(***************************************************************************)
(* The translation requests step by step, with services that may never     *)
(* answer                                                                  *)
(*                                                                         *)
(* A call is sent, and the caller goes on when the call returns.  A        *)
(* service answers "ok", "fail" or "raise" as above, or "hang": it never   *)
(* responds.  A call that was given a timeout raises when the service      *)
(* hangs; a call without one waits for ever.                               *)
(***************************************************************************)
\* the timeout= argument of each call of a service, in seconds
RequestTimeout(site) ==
    CASE site = "mymemory" -> NoneStr       \* app.py: requests.get(url, headers=headers)
      [] site = "google" -> NoneStr         \* app.py: requests.get(alt_url, headers=headers)
      [] site = "huggingface" -> "30"       \* requests.post(..., timeout=30)
      [] site = "mymemory_en" -> "10"       \* requests.get(url, timeout=10)
      [] site = "googletrans" -> NoneStr    \* translator.translate(chunk, src=, dest=)

\* how a call can end for the caller.  requests has no default timeout;
\* googletrans is given none and what its HTTP client does is the library's
\* matter, so a hanging call either raises or never returns.
Outcomes(site, answer) ==
    IF answer # "hang" THEN {answer}
    ELSE IF RequestTimeout(site) # NoneStr THEN {"raise"}
    ELSE IF site = "googletrans" THEN {"raise", "hang"}
    ELSE {"hang"}

LiveCall(site, k) == [service |-> site, chunk |-> k, timeout |-> RequestTimeout(site)]

Running(pc, k, translated_chunks, calls) ==
    [pc |-> pc, k |-> k, translated_chunks |-> translated_chunks, calls |-> calls]

Done(response) == [pc |-> "done", response |-> response]

\* translate_document up to the call of translate_with_libraries
TranslateStart ==
    /\ trOut = None
    /\ trIn # None
    /\ trIn.op = "translate_document"
    /\ trOut' = IF \/ ~trIn.request.has_text
                   \/ strip(trIn.request.text) = ""
                   \/ trIn.request.target_language \in {"English", "english"}
                THEN Done(translate_document(trIn.request, trIn.env))
                ELSE Running("loop", 1, <<>>, <<>>)
    /\ UNCHANGED <<cmpIn, cmpOut, docIn, docOut, trIn, ocrIn, ocrOut, apiIn, apiOut, gemini, req>>

\* "for chunk in chunks": a blank chunk is skipped, any other is sent to
\* MyMemory
TranslateSend ==
    /\ trOut # None
    /\ trOut.pc = "loop"
    /\ LET chunks == SliceChunks(trIn.request.text, 0)
           k == trOut.k
       IN  /\ k <= Len(chunks)
           /\ trOut' = IF strip(chunks[k]) = ""
                       THEN [trOut EXCEPT !.k = k + 1]
                       ELSE [trOut EXCEPT !.pc = "mymemory",
                                          !.calls = Append(@, LiveCall("mymemory", k))]
    /\ UNCHANGED <<cmpIn, cmpOut, docIn, docOut, trIn, ocrIn, ocrOut, apiIn, apiOut, gemini, req>>

\* requests.get returns or raises: the chunk is settled, or the Google
\* endpoint is called
TranslateAnswer ==
    /\ trOut # None
    /\ trOut.pc \in {"mymemory", "google"}
    /\ LET chunks == SliceChunks(trIn.request.text, 0)
           k == trOut.k
           code == TargetCode(trIn.request.target_language)
       IN  \E o \in Outcomes(trOut.pc, trIn.env[trOut.pc][k]) :
              /\ o # "hang"
              /\ trOut' =
                   IF trOut.pc = "mymemory" /\ o = "fail"
                   THEN [trOut EXCEPT !.pc = "google",
                                      !.calls = Append(@, LiveCall("google", k))]
                   ELSE LET seen == IF trOut.pc = "mymemory"
                                    THEN [trIn.env EXCEPT !.mymemory[k] = o]
                                    ELSE [trIn.env EXCEPT !.mymemory[k] = "fail",
                                                          !.google[k] = o]
                        IN  [trOut EXCEPT
                               !.pc = "loop", !.k = k + 1,
                               !.translated_chunks =
                                   Append(@, TranslateChunk(chunks[k], k, code, seen).part)]
    /\ UNCHANGED <<cmpIn, cmpOut, docIn, docOut, trIn, ocrIn, ocrOut, apiIn, apiOut, gemini, req>>

\* after the loop: translate_with_libraries returns and translate_document
\* answers
TranslateFinish ==
    /\ trOut # None
    /\ trOut.pc = "loop"
    /\ trOut.k > Len(SliceChunks(trIn.request.text, 0))
    /\ trOut' = Done([status |-> 200, success |-> TRUE,
                      translated_text |->
                          TranslationResult(trIn.request.text,
                                            trIn.request.target_language,
                                            trOut.translated_chunks),
                      error |-> NoneStr, calls |-> trOut.calls])
    /\ UNCHANGED <<cmpIn, cmpOut, docIn, docOut, trIn, ocrIn, ocrOut, apiIn, apiOut, gemini, req>>

\* the services of ocr_processor.py, each called with a one-chunk text
ServiceSend ==
    /\ trOut = None
    /\ trIn # None
    /\ trIn.op = "service"
    /\ trOut' = Running(trIn.service, 1, <<>>, <<LiveCall(trIn.service, 1)>>)
    /\ UNCHANGED <<cmpIn, cmpOut, docIn, docOut, trIn, ocrIn, ocrOut, apiIn, apiOut, gemini, req>>

ServiceAnswer ==
    /\ trOut # None
    /\ trOut.pc \in {"huggingface", "mymemory_en", "googletrans"}
    /\ \E o \in Outcomes(trOut.pc, trIn.answer) :
          /\ o # "hang"
          /\ LET env == [huggingface |-> o, mymemory_en |-> o, googletrans |-> o]
             IN  trOut' = Done(
                    CASE trOut.pc = "huggingface" ->
                            translate_with_huggingface(trIn.text, trIn.source, env)
                      [] trOut.pc = "mymemory_en" ->
                            translate_with_mymemory(trIn.text, trIn.source, env)
                      [] trOut.pc = "googletrans" ->
                            translate_with_googletrans(trIn.text, trIn.source, env))
    /\ UNCHANGED <<cmpIn, cmpOut, docIn, docOut, trIn, ocrIn, ocrOut, apiIn, apiOut, gemini, req>>

LiveAnswers == {"ok", "fail", "raise", "hang"}

LiveEnvs ==
    [requests_installed : {TRUE},
     mymemory : [1..MaxChunks -> LiveAnswers],
     google : [1..MaxChunks -> LiveAnswers]]

(***************************************************************************)
(* ocr_processor.py: perform_ocr_with_lang_detect and process_ocr          *)
(*                                                                         *)
(* An image is what the engines do with it: the string Tesseract returns   *)
(* with lang='eng+hin' and with lang='eng' (or that the call raises), and  *)
(* the readings of EasyOCR, their confidences in tenths.  The character    *)
(* "~" stands for the Devanagari characters U+0900 to U+097F.              *)
(***************************************************************************)
Devanagari == {"~"}

\* devanagari_chars_regex.search(text)
HasDevanagari(text) == \E i \in 1..Len(text) : CharAt(text, i) \in Devanagari

\* "needle in text"
Contains(text, needle) ==
    \E i \in 1..(Len(text) - Len(needle) + 1) :
        SubSeq(text, i, i + Len(needle) - 1) = needle

\* the readings above the confidence threshold 0.3 of Hindi, stripped
RECURSIVE EasyParts(_)
EasyParts(readings) ==
    IF readings = <<>> THEN <<>>
    ELSE (IF readings[1].tenths > 3 THEN <<strip(readings[1].text)>> ELSE <<>>)
         \o EasyParts(Tail(readings))

\* extract_text_with_easyocr(image, detected_language='hi'): None without
\* EasyOCR, when the reader raises and when no reading is kept
extract_text_with_easyocr(image, env) ==
    IF ~env.EASYOCR_SUPPORT \/ image.easy.raises THEN NoneStr
    ELSE IF EasyParts(image.easy.readings) # <<>>
    THEN join(" ", EasyParts(image.easy.readings))
    ELSE NoneStr

\* pycountry.languages.get(alpha_2=code).name
LanguageName(code) ==
    CASE code = "en" -> "English"
      [] code = "es" -> "Spanish"
      [] code = "hi" -> "Hindi"

\* langdetect.detect: raises on a text without letters, else what the
\* environment makes of the text
detect(text, env) ==
    IF strip(text) = "" THEN "raise" ELSE env.detect

OcrResult(text, name, code, original_text, was_translated, warning) ==
    [text |-> text, detected_lang_name |-> name, detected_lang_code |-> code,
     original_text |-> original_text, was_translated |-> was_translated,
     warning |-> warning]

\* perform_ocr_with_lang_detect taking every Hindi reading of EasyOCR,
\* longer or not
perform_ocr_prefers_easyocr(image, env) ==
    LET easyocr_text == extract_text_with_easyocr(image, env)
        final_ocr_text ==
            IF easyocr_text # NoneStr /\ HasDevanagari(easyocr_text)
            THEN easyocr_text
            ELSE IF image.tess.dual_raises THEN image.tess.eng ELSE image.tess.dual
    IN  OcrResult(IF strip(final_ocr_text) = "" THEN "" ELSE final_ocr_text,
                  "Hindi", "hi", final_ocr_text, FALSE,
                  IF strip(final_ocr_text) = ""
                  THEN "No text detected in the document." ELSE NoneStr)

perform_ocr_with_lang_detect(image, env) ==
    LET tesseract_dual_text ==
            IF image.tess.dual_raises THEN image.tess.eng ELSE image.tess.dual
        easyocr_text == extract_text_with_easyocr(image, env)
        easy_hindi ==
            easyocr_text # NoneStr /\ easyocr_text # "" /\ HasDevanagari(easyocr_text)
        prefer_easy == easy_hindi /\ Len(easyocr_text) > Len(tesseract_dual_text)
        final_ocr_text == IF prefer_easy THEN easyocr_text ELSE tesseract_dual_text
        hindi == prefer_easy \/ (~easy_hindi /\ HasDevanagari(tesseract_dual_text))
        detected == IF final_ocr_text # "" THEN detect(final_ocr_text, env) ELSE "en"
        iso_code == IF hindi THEN "hi" ELSE IF detected = "raise" THEN "en" ELSE detected
        name == IF hindi THEN "Hindi"
                ELSE IF detected = "raise" THEN "English (assumed)"
                ELSE LanguageName(detected)
    IN  IF image.tess.dual_raises /\ image.tess.eng_raises
        THEN \* except Exception: the defaults with an error text
             OcrResult("Error: OCR processing failed - " \o LibMessage,
                       "English", "en", "", FALSE, NoneStr)
        ELSE IF strip(final_ocr_text) = ""
        THEN OcrResult("", name, iso_code, "", FALSE,
                       "No text detected in the document.")
        ELSE OcrResult(final_ocr_text, name, iso_code, final_ocr_text, FALSE,
                       IF iso_code \notin {"en", "eng"}
                       THEN "Document processed in its original language ("
                            \o name \o "). Use the 'Translate' button to translate it."
                       ELSE NoneStr)

\* install_poppler_guide(): the first line of the guide stands for all of it
PopplerGuide == "\n    To enable PDF processing, please install Poppler:\n"

\* lang.capitalize() of a language code
Capitalize(code) ==
    CASE code = "en" -> "En"
      [] code = "es" -> "Es"
      [] code = "hi" -> "Hi"

\* "--- Page {i+1} ---\\n": the source writes a backslash and an n
OcrPageHeader(i) == "--- Page " \o ToString(i) \o " ---\\n"

\* the codes of the pages, each once, in the order of their first page
RECURSIVE DetectedLangs(_, _)
DetectedLangs(page_results, seen) ==
    IF page_results = <<>> THEN seen
    ELSE DetectedLangs(Tail(page_results),
             IF \E k \in 1..Len(seen) : seen[k] = page_results[1].detected_lang_code
             THEN seen
             ELSE Append(seen, page_results[1].detected_lang_code))

\* process_pdf_fallback: the text layer read with PyPDF2
process_pdf_fallback(file) ==
    LET kept == SelectSeq([i \in 1..Len(file.layers) |->
                              [i |-> i, text |-> file.layers[i]]],
                          LAMBDA p : strip(p.text) # "")
    IN  IF file.pypdf2 = "not_installed"
        THEN "Error: PyPDF2 not installed. Please install: pip install PyPDF2"
        ELSE IF file.pypdf2 = "raise"
        THEN "Error processing PDF: " \o LibMessage
        ELSE IF kept # <<>>
        THEN join("\n\n", [k \in 1..Len(kept) |->
                              "--- Page " \o ToString(kept[k].i) \o " ---\n"
                              \o strip(kept[k].text)])
        ELSE "Error: PDF appears to be image-based. OCR processing requires Poppler installation."

\* update_result(data), is_ocr False, once the language is detected and the
\* text went through auto_translate_to_english: the text of the result is a
\* Python value, a str or the dict a translation service returns
Translated_result(data, detected, translated) ==
    IF Truthy(translated) /\ NotEqualStr(translated, data)
    THEN OcrResult(translated, LanguageName(detected), detected, data, TRUE,
                   "Document was automatically translated from "
                   \o LanguageName(detected) \o " to English.")
    ELSE OcrResult(Str(data), "English", "en", data, FALSE,
                   "Auto-translation from " \o detected
                   \o " failed. Showing original text.")

\* update_result(data) of process_ocr, is_ocr False
update_result(data, detected, env) ==
    IF data = "" \/ startswith(data, "Error:") \/ detected \in {"raise", "en", "eng"}
    THEN OcrResult(Str(data), "English", "en", data, FALSE, NoneStr)
    ELSE Translated_result(data, detected,
             auto_translate_to_english(data, detected, env.services).value)

\* the extensions of the image branch
ImageExtensions == {".png", ".jpg", ".jpeg", ".gif", ".bmp", ".tiff", ".webp", ".tif"}

\* the extensions whose text a helper of the module extracts
HelperExtensions ==
    {".doc", ".xlsx", ".xls", ".pptx", ".ppt", ".odt", ".ods", ".odp", ".txt",
     ".text", ".csv", ".html", ".htm", ".xml", ".rtf"}

\* the PDF branch with pdf2image and Poppler, after the loop over the page
\* images: update_result({...}, is_ocr=True)
ConsolidatePages(page_results, detected_langs) ==
    OcrResult(
        Str(join("\\n\\n", [i \in 1..Len(page_results) |->
                OcrPageHeader(i) \o strip(page_results[i].text)])),
        join(", ", [k \in 1..Len(detected_langs) |-> Capitalize(detected_langs[k])]),
        join(",", detected_langs),
        join("\\n\\n", [i \in 1..Len(page_results) |->
                OcrPageHeader(i) \o strip(page_results[i].original_text)]),
        \E i \in 1..Len(page_results) : page_results[i].was_translated,
        IF \E i \in 1..Len(page_results) : page_results[i].was_translated
        THEN "Multi-page PDF was automatically processed and translated to English."
        ELSE NoneStr)

\* the image branch: update_result(perform_ocr_with_lang_detect(filepath),
\* is_ocr=True) and the warning of an empty text
ImageResult(page) ==
    [page EXCEPT
       !.text = Str(page.text),
       !.warning = IF strip(page.text) = "" /\ page.warning = NoneStr
                   THEN "No text detected in image. The image may not contain readable text."
                   ELSE page.warning]

\* the branches of process_ocr that recognise page images or an image
OcrBranch(file, file_extension, env) ==
    \/ file_extension = ".pdf" /\ env.PDF_SUPPORT /\ env.poppler /\ file.convert = "ok"
    \/ file_extension \in ImageExtensions

\* the text the other branches of process_ocr hand to update_result
ExtractedData(file, file_extension, fallback_text, env) ==
    IF file_extension = ".pdf"
    THEN IF ~env.PDF_SUPPORT
         THEN "Error: pdf2image not installed. Please install: pip install pdf2image"
         ELSE IF ~env.poppler
         THEN IF Contains(fallback_text, "Error:")
              THEN fallback_text \o "\\n\\n" \o PopplerGuide
              ELSE fallback_text
         ELSE "Error: Failed to extract text from PDF. " \o LibMessage
              \o "\\n\\n" \o PopplerGuide
    ELSE IF file_extension = ".docx" /\ ~env.WORD_SUPPORT
    THEN "Error: Word document support not installed. Please install: pip install python-docx docx2txt"
    ELSE IF file_extension \in HelperExtensions \cup {".docx"}
    THEN file.helper
    ELSE "Error: Unsupported file type '" \o file_extension \o "'."

\* the last statement of process_ocr
NoTextDefault(ocr_result) ==
    IF ocr_result.text = Str("") /\ ocr_result.warning = NoneStr
    THEN [ocr_result EXCEPT !.text = Str("No text could be extracted from this document.")]
    ELSE ocr_result

\* the data of the branches that do not recognise images, through update_result
ProcessData(data, env) == update_result(data, detect(data, env), env)

\* the page images of a PDF, each through perform_ocr_with_lang_detect
ProcessPages(page_results) ==
    ConsolidatePages(page_results, DetectedLangs(page_results, <<>>))

\* process_ocr(filepath, filename)
process_ocr(file, env) ==
    IF ~OcrBranch(file, lower(file.suffix), env)
    THEN NoTextDefault(ProcessData(
             ExtractedData(file, lower(file.suffix), process_pdf_fallback(file), env),
             env))
    ELSE IF lower(file.suffix) = ".pdf"
    THEN NoTextDefault(ProcessPages(
             [i \in 1..Len(file.images) |->
                 perform_ocr_with_lang_detect(file.images[i], env)]))
    ELSE NoTextDefault(ImageResult(perform_ocr_with_lang_detect(file.image, env)))

(***************************************************************************)
(* The OCR requests of the model                                           *)
(***************************************************************************)
TesseractRuns ==
    {[dual_raises |-> FALSE, dual |-> "", eng_raises |-> FALSE, eng |-> ""],
     [dual_raises |-> FALSE, dual |-> "\f", eng_raises |-> FALSE, eng |-> "\f"],
     [dual_raises |-> FALSE, dual |-> "hello world\n", eng_raises |-> FALSE,
      eng |-> "hello world\n"],
     [dual_raises |-> FALSE, dual |-> "~~~ hello\n", eng_raises |-> FALSE,
      eng |-> "hello\n"],
     [dual_raises |-> TRUE, dual |-> "", eng_raises |-> FALSE, eng |-> "hello world\n"],
     [dual_raises |-> TRUE, dual |-> "", eng_raises |-> TRUE, eng |-> ""]}

EasyRuns ==
    {[raises |-> TRUE, readings |-> <<>>],
     [raises |-> FALSE, readings |-> <<>>],
     [raises |-> FALSE, readings |-> <<[text |-> "~", tenths |-> 2]>>],
     [raises |-> FALSE, readings |-> <<[text |-> " ~~ ", tenths |-> 9]>>],
     [raises |-> FALSE, readings |-> <<[text |-> "~~~~ hello", tenths |-> 9],
                                       [text |-> "world", tenths |-> 8]>>]}

OcrImages == [tess : TesseractRuns, easy : EasyRuns]

BlankImage ==
    [tess |-> [dual_raises |-> FALSE, dual |-> "\f", eng_raises |-> FALSE, eng |-> "\f"],
     easy |-> [raises |-> FALSE, readings |-> <<>>]]

\* the page images of the PDFs
PageImages ==
    {BlankImage,
     [tess |-> [dual_raises |-> FALSE, dual |-> "hello world\n", eng_raises |-> FALSE,
                eng |-> "hello world\n"],
      easy |-> [raises |-> FALSE, readings |-> <<>>]],
     [tess |-> [dual_raises |-> FALSE, dual |-> "~~~ hello\n", eng_raises |-> FALSE,
                eng |-> "hello\n"],
      easy |-> [raises |-> FALSE, readings |-> <<>>]]}

OcrFile(suffix) ==
    [suffix |-> suffix, convert |-> "ok", images |-> <<>>, pypdf2 |-> "ok",
     layers |-> <<>>, image |-> BlankImage, helper |-> ""]

\* what extract_text_from_csv returns when pandas raises on the file; the
\* helper of every other format ends in a message of this form ("Error
\* reading text file: ...", "Error extracting text from Excel file: ...")
CsvFailure == "Error extracting text from CSV: " \o LibMessage

HelperTexts ==
    {"", " ", "hello world", "hola mundo",
     "Error: Excel support not installed. Please install: pip install openpyxl xlrd pandas",
     CsvFailure}

OcrFiles ==
    {[OcrFile(".pdf") EXCEPT !.convert = c, !.images = p] :
        c \in {"ok", "raise"}, p \in UNION {[1..n -> PageImages] : n \in 0..MaxPages}}
    \cup {[OcrFile(s) EXCEPT !.pypdf2 = y, !.layers = l] :
        s \in {".pdf", ".PDF"}, y \in {"ok", "not_installed", "raise"},
        l \in {<<>>, <<"">>, <<"hola mundo", " ">>}}
    \cup {[OcrFile(".png") EXCEPT !.image = i] : i \in OcrImages}
    \cup {[OcrFile(s) EXCEPT !.helper = h] :
        s \in {".docx", ".txt", ".rtf", ".xyz"}, h \in HelperTexts}

\* the translation services as process_ocr meets them
OcrServices ==
    {[huggingface |-> "no_token", mymemory_en |-> "fail", googletrans |-> "not_installed"],
     [huggingface |-> "no_token", mymemory_en |-> "ok", googletrans |-> "ok"],
     [huggingface |-> "ok", mymemory_en |-> "ok", googletrans |-> "ok"]}

OcrEnvs ==
    [EASYOCR_SUPPORT : BOOLEAN, PDF_SUPPORT : BOOLEAN, poppler : BOOLEAN,
     WORD_SUPPORT : BOOLEAN, detect : {"en", "es", "raise"}, services : OcrServices]

\* a call of perform_ocr_with_lang_detect
PerformOcrWithLangDetect ==
    /\ ocrOut = None
    /\ ocrIn # None
    /\ ocrIn.op = "perform_ocr_with_lang_detect"
    /\ ocrOut' = perform_ocr_with_lang_detect(ocrIn.image, ocrIn.env)
    /\ UNCHANGED <<cmpIn, cmpOut, docIn, docOut, trIn, trOut, ocrIn, apiIn, apiOut, gemini, req>>

\* a call of process_ocr
ProcessOcr ==
    /\ ocrOut = None
    /\ ocrIn # None
    /\ ocrIn.op = "process_ocr"
    /\ ocrOut' = process_ocr(ocrIn.file, ocrIn.env)
    /\ UNCHANGED <<cmpIn, cmpOut, docIn, docOut, trIn, trOut, ocrIn, apiIn, apiOut, gemini, req>>

\* a call of ImageExtractor.extract
ImageExtract ==
    /\ ocrOut = None
    /\ ocrIn # None
    /\ ocrIn.op = "ImageExtractor.extract"
    /\ ocrOut' = ImageExtractor_extract(ocrIn.file)
    /\ UNCHANGED <<cmpIn, cmpOut, docIn, docOut, trIn, trOut, ocrIn, apiIn, apiOut, gemini, req>>

(***************************************************************************)
(* fastapi_routes.py: POST /api/v2/process and POST /api/v2/process/batch  *)
(*                                                                         *)
(* An upload is its filename, its size in bytes, what saving it to the     *)
(* temporary file does ("open_raises": the file is not created,            *)
(* "write_raises": reading the upload or writing it raises after the file  *)
(* was created) and, in doc, what the extractors do with the saved file.   *)
(* A handler returns its response, the log of what it did to temporary     *)
(* files and documents, and the temporary files left on disk.              *)
(***************************************************************************)
MAX_FILE_SIZE == 20 * 1024 * 1024

\* "if len(files) > 10"
BatchLimit == 10

\* f"File too large. Maximum size is {MAX_FILE_SIZE / (1024*1024):.1f}MB"
TooLargeMessage == "File too large. Maximum size is 20.0MB"

Event(what, filename) == [what |-> what, filename |-> filename]

\* Path(file.filename).suffix of the names of the model: from the last dot
RECURSIVE Suffix(_, _)
Suffix(filename, i) ==
    IF i = 0 THEN ""
    ELSE IF CharAt(filename, i) = "." THEN SubSeq(filename, i, Len(filename))
    ELSE Suffix(filename, i - 1)

\* the temporary file f"{uuid.uuid4()}_{file.filename}" as the processor sees it
TempFile(upload) == [upload.doc EXCEPT !.suffix = Suffix(upload.filename, Len(upload.filename)),
                                      !.exists = TRUE]

\* document_processor.is_supported(file.filename)
FilenameSupported(upload) ==
    is_supported(File(Suffix(upload.filename, Len(upload.filename)), FALSE, "ok"))

\* "with open(temp_path, 'wb') as temp_file: ..." : the events, whether the
\* file is on disk afterwards, and whether the block raised
SaveUpload(upload) ==
    CASE upload.save = "ok" ->
            [log |-> <<Event("save", upload.filename)>>, on_disk |-> TRUE, raised |-> FALSE]
      [] upload.save = "write_raises" ->
            [log |-> <<Event("save", upload.filename)>>, on_disk |-> TRUE, raised |-> TRUE]
      [] upload.save = "open_raises" ->
            [log |-> <<>>, on_disk |-> FALSE, raised |-> TRUE]

\* raise HTTPException(status_code, detail)
HTTPException(status_code, detail) ==
    [status |-> status_code, detail |-> detail, body |-> None,
     log |-> <<>>, left |-> <<>>]

\* serialize_extracted_content(result) with "success" and "filename" added
Serialized(content, filename) ==
    [filename |-> filename, success |-> TRUE, error |-> NoneStr, content |-> content]

\* a per-file failure of the batch
Failure(filename, error) ==
    [filename |-> filename, success |-> FALSE, error |-> error, content |-> None]

\* the try block of process_single_document after the upload is saved
ProcessSaved(upload, processed) ==
    IF processed.kind = "return"
    THEN [status |-> 200, detail |-> NoneStr,
          body |-> Serialized(processed.value, upload.filename)]
    ELSE IF processed.exception = "ValueError"
    THEN [status |-> 400, detail |-> processed.message, body |-> None]
    ELSE IF processed.exception = "FileNotFoundError"
    THEN [status |-> 404, detail |-> processed.message, body |-> None]
    ELSE [status |-> 500, detail |-> "Processing failed: " \o processed.message,
          body |-> None]

\* process_single_document from "Save file temporarily" on: the finally
\* block removes the temporary file when it exists
SaveAndProcess(upload, saved) ==
    LET answer == IF saved.raised
                  THEN [status |-> 500, detail |-> "Internal Server Error", body |-> None]
                  ELSE ProcessSaved(upload, process_document(TempFile(upload)))
    IN  [status |-> answer.status, detail |-> answer.detail, body |-> answer.body,
         log |-> saved.log
                 \o (IF saved.raised THEN <<>> ELSE <<Event("process", upload.filename)>>)
                 \o (IF saved.on_disk THEN <<Event("remove", upload.filename)>> ELSE <<>>),
         left |-> <<>>]

\* process_single_document without the check of the size
process_single_document_unchecked(upload) ==
    IF upload.filename = ""
    THEN HTTPException(400, "No filename provided")
    ELSE SaveAndProcess(upload, SaveUpload(upload))

\* process_single_document(file)
process_single_document(upload) ==
    IF upload.size # 0 /\ upload.size > MAX_FILE_SIZE
    THEN HTTPException(413, TooLargeMessage)
    ELSE IF upload.size = 0
    THEN HTTPException(400, "Empty file uploaded")
    ELSE IF upload.filename = ""
    THEN HTTPException(400, "No filename provided")
    ELSE IF ~FilenameSupported(upload)
    THEN HTTPException(400, "Unsupported file type '"
                            \o lower(Suffix(upload.filename, Len(upload.filename)))
                            \o "'. Supported formats: " \o SupportedList)
    ELSE SaveAndProcess(upload, SaveUpload(upload))

\* a turn of the save loop that reports no rejected file
SaveTurnSilent(upload, saved) ==
    [has_result |-> FALSE, result |-> Failure(upload.filename, ""),
     kept |-> ~saved.raised, log |-> saved.log, on_disk |-> saved.on_disk]

\* one turn of "for file in files": the result appended (has_result), whether
\* the upload joins temp_files, the events and whether a file is on disk
SaveTurn(upload, saved) ==
    IF upload.size # 0 /\ upload.size > MAX_FILE_SIZE
    THEN [has_result |-> TRUE, result |-> Failure(upload.filename, TooLargeMessage),
          kept |-> FALSE, log |-> <<>>, on_disk |-> FALSE]
    ELSE IF upload.size = 0
    THEN [has_result |-> TRUE, result |-> Failure(upload.filename, "Empty file"),
          kept |-> FALSE, log |-> <<>>, on_disk |-> FALSE]
    ELSE IF upload.filename = "" \/ ~FilenameSupported(upload)
    THEN [has_result |-> TRUE,
          result |-> Failure(upload.filename,
                        "Unsupported file type '"
                        \o (IF upload.filename = "" THEN "unknown"
                            ELSE lower(Suffix(upload.filename, Len(upload.filename))))
                        \o "'. Supported formats: " \o SupportedList),
          kept |-> FALSE, log |-> <<>>, on_disk |-> FALSE]
    ELSE IF saved.raised
    THEN [has_result |-> TRUE,
          result |-> Failure(upload.filename, "Failed to save file: " \o LibMessage),
          kept |-> FALSE, log |-> saved.log, on_disk |-> saved.on_disk]
    ELSE [has_result |-> FALSE, result |-> Failure(upload.filename, ""),
          kept |-> TRUE, log |-> saved.log, on_disk |-> TRUE]

\* "for file in files": results, temp_files, the events, and the files on disk
\* that are not in temp_files
RECURSIVE SaveLoop(_, _, _, _, _, _)
SaveLoop(files, k, results, temp_files, log, stray) ==
    IF k > Len(files)
    THEN [results |-> results, temp_files |-> temp_files, log |-> log, stray |-> stray]
    ELSE LET t == SaveTurn(files[k], SaveUpload(files[k]))
         IN  SaveLoop(files, k + 1,
                 IF t.has_result THEN Append(results, t.result) ELSE results,
                 IF t.kept THEN Append(temp_files, files[k]) ELSE temp_files,
                 log \o t.log,
                 IF t.on_disk /\ ~t.kept THEN Append(stray, files[k].filename) ELSE stray)

\* one turn of "for temp_path, filename in temp_files"
ProcessTurn(upload, processed) ==
    IF processed.kind = "return"
    THEN Serialized(processed.value, upload.filename)
    ELSE Failure(upload.filename, "Processing failed: " \o processed.message)

\* len([r for r in results if r.get("success")])
Successes(results) == Len(SelectSeq(results, LAMBDA r : r.success))

\* the try and finally blocks of the batch handler and its response
BatchResponse(saved) ==
    LET temp_files == saved.temp_files
        results == saved.results
                   \o [k \in 1..Len(temp_files) |->
                          ProcessTurn(temp_files[k], process_document(TempFile(temp_files[k])))]
    IN  [status |-> 200, detail |-> NoneStr,
         body |-> [success |-> TRUE,
                   processed_count |-> Successes(results),
                   failed_count |-> Len(results) - Successes(results),
                   results |-> results],
         log |-> saved.log
                 \o [k \in 1..Len(temp_files) |-> Event("process", temp_files[k].filename)]
                 \o [k \in 1..Len(temp_files) |-> Event("remove", temp_files[k].filename)],
         left |-> saved.stray]

\* the batch handler without its limit on the number of files
batch_without_limit(files) ==
    IF files = <<>>
    THEN HTTPException(400, "No files provided")
    ELSE BatchResponse(SaveLoop(files, 1, <<>>, <<>>, <<>>, <<>>))

\* process_multiple_documents(files) of fastapi_routes.py
batch_process_multiple_documents(files) ==
    IF files = <<>>
    THEN HTTPException(400, "No files provided")
    ELSE IF Len(files) > BatchLimit
    THEN HTTPException(400, "Maximum 10 files allowed per batch")
    ELSE BatchResponse(SaveLoop(files, 1, <<>>, <<>>, <<>>, <<>>))

(***************************************************************************)
(* The uploads of the model                                                *)
(***************************************************************************)
Upload(filename, size, save, parse) ==
    [filename |-> filename, size |-> size, save |-> save,
     doc |-> File(".txt", TRUE, parse)]

UploadKinds ==
    {Upload("valid.txt", 100, "ok", "ok"),
     Upload("bad.json", 100, "ok", "raise"),
     Upload("slides.ppt", 100, "ok", "ok"),
     Upload("invalid.xyz", 100, "ok", "ok"),
     Upload("large.txt", MAX_FILE_SIZE + 1, "ok", "ok"),
     Upload("limit.txt", MAX_FILE_SIZE, "ok", "ok"),
     Upload("empty.txt", 0, "ok", "ok"),
     Upload("", 100, "ok", "ok"),
     Upload("disk.txt", 100, "write_raises", "ok"),
     Upload("perm.txt", 100, "open_raises", "ok")}

\* most files of the batches built of every kind of upload
MaxUploads == 3

\* the batches of every kind of upload, and batches at and above the limit
UploadBatches ==
    UNION {[1..n -> UploadKinds] : n \in 0..MaxUploads}
    \cup {[k \in 1..n |-> u] :
            n \in {BatchLimit, BatchLimit + 1},
            u \in {Upload("valid.txt", 100, "ok", "ok"),
                   Upload("large.txt", MAX_FILE_SIZE + 1, "ok", "ok")}}

\* POST /api/v2/process
ProcessSingleDocument ==
    /\ apiOut = None
    /\ apiIn # None
    /\ apiIn.op = "process_single_document"
    /\ apiOut' = process_single_document(apiIn.file)
    /\ UNCHANGED <<cmpIn, cmpOut, docIn, docOut, trIn, trOut, ocrIn, ocrOut, apiIn, gemini, req>>

\* POST /api/v2/process/batch
ProcessBatch ==
    /\ apiOut = None
    /\ apiIn # None
    /\ apiIn.op = "process_multiple_documents"
    /\ apiOut' = batch_process_multiple_documents(apiIn.files)
    /\ UNCHANGED <<cmpIn, cmpOut, docIn, docOut, trIn, trOut, ocrIn, ocrOut, apiIn, gemini, req>>

(***************************************************************************)
(* app.py: POST /api/process                                               *)
(*                                                                         *)
(* The request holds the uploaded file or none; save tells what            *)
(* file.save(temp_path) does ("raise_before": nothing is written,          *)
(* "raise_after": it raises with the temporary file created), ocr and env  *)
(* what process_ocr meets.  secure_filename leaves the names of the model, *)
(* ASCII without separators, as they are.                                  *)
(***************************************************************************)
ALLOWED_EXTENSIONS ==
    {".png", ".jpg", ".jpeg", ".gif", ".bmp", ".tiff", ".tif", ".webp",
     ".pdf", ".doc", ".docx", ".txt", ".rtf", ".xls", ".xlsx", ".csv",
     ".ppt", ".pptx", ".odt", ".ods", ".odp", ".html", ".htm", ".xml"}

\* allowed_file(filename)
allowed_file(filename) ==
    lower(Suffix(filename, Len(filename))) \in ALLOWED_EXTENSIONS

FlaskResponse(status, success, error, ocr_result, log, left) ==
    [status |-> status, success |-> success, error |-> error,
     ocr_result |-> ocr_result, log |-> log, left |-> left]

\* the inner try block of process_document, the temporary file saved
OcrResponse(filename, ocr_result) ==
    LET log == <<Event("save", filename), Event("process", filename),
                 Event("remove", filename)>>
    IN  IF ocr_result.text.type = "dict"
        THEN \* a dict has no startswith: AttributeError, the outer except
             FlaskResponse(500, FALSE,
                 "Failed to process document: 'dict' object has no attribute 'startswith'",
                 None, log, <<>>)
        ELSE IF startswith(ocr_result.text.value, "Error:")
        THEN FlaskResponse(500, FALSE, ocr_result.text.value, None, log, <<>>)
        ELSE FlaskResponse(200, TRUE, NoneStr, ocr_result, log, <<>>)

\* process_document() of app.py
flask_process_document(request) ==
    IF ~request.has_file
    THEN FlaskResponse(400, FALSE, "No file provided", None, <<>>, <<>>)
    ELSE IF request.filename = ""
    THEN FlaskResponse(400, FALSE, "No file selected", None, <<>>, <<>>)
    ELSE IF ~allowed_file(request.filename)
    THEN FlaskResponse(400, FALSE, "File type not supported", None, <<>>, <<>>)
    ELSE IF request.save = "raise_before"
    THEN FlaskResponse(500, FALSE, "Failed to process document: " \o LibMessage,
                       None, <<>>, <<>>)
    ELSE IF request.save = "raise_after"
    THEN FlaskResponse(500, FALSE, "Failed to process document: " \o LibMessage,
                       None, <<Event("save", request.filename)>>, <<request.filename>>)
    ELSE OcrResponse(request.filename,
             process_ocr([request.ocr EXCEPT
                             !.suffix = Suffix(request.filename, Len(request.filename))],
                         request.env))

\* the requests of POST /api/process
FlaskRequests ==
    {[has_file |-> FALSE, filename |-> "", save |-> "ok", ocr |-> OcrFile(""),
      env |-> e] : e \in OcrEnvs}
    \cup {[has_file |-> TRUE, filename |-> n, save |-> s, ocr |-> f, env |-> e] :
            n \in {"", "scan.png", "notes.txt", "notes.rtf", "data.json", "SCAN.PDF",
                   "data.csv"},
            s \in {"ok", "raise_before", "raise_after"},
            f \in {[OcrFile("") EXCEPT !.helper = h] : h \in HelperTexts}
                  \cup {[OcrFile("") EXCEPT !.images = <<BlankImage>>]},
            e \in OcrEnvs}

\* POST /api/process
FlaskProcessDocument ==
    /\ apiOut = None
    /\ apiIn # None
    /\ apiIn.op = "flask_process_document"
    /\ apiOut' = flask_process_document(apiIn.request)
    /\ UNCHANGED <<cmpIn, cmpOut, docIn, docOut, trIn, trOut, ocrIn, ocrOut, apiIn, gemini, req>>

(***************************************************************************)
(* The handles of GeminiClient and of the EasyOCR helper                   *)
(* (gemini_client.py, ocr_processor.py).  gemini holds the client object,  *)
(* the module flag EASYOCR_SUPPORT, the number of constructions of each    *)
(* kind of handle since the process started, and what the last operation   *)
(* did.                                                                    *)
(***************************************************************************)
MaxOps == 4

\* GeminiClient.__init__: in local mode the summarizer and the text
\* generator start as None; in API mode the attributes are never set
GeminiClient(use_local_nlp) ==
    [use_local_nlp |-> use_local_nlp,
     summarizer |-> IF use_local_nlp THEN "None" ELSE "unset",
     text_generator |-> IF use_local_nlp THEN "None" ELSE "unset"]

\* the process after "op" ended with "outcome", the client now being "client"
\* and "built" being the constructions made so far
After(op, outcome, client, built) ==
    [gemini EXCEPT !.client = client, !.built = built,
                   !.last = [op |-> op, outcome |-> outcome],
                   !.ops = @ + 1]

\* GeminiClient._get_summarizer, then the work of the caller with the handle
WithSummarizer(op) ==
    IF gemini.client.summarizer = "None"
    THEN After(op, "return",
               [gemini.client EXCEPT !.summarizer = "pipeline"],
               [gemini.built EXCEPT !.summarizer = @ + 1])
    ELSE After(op, "return", gemini.client, gemini.built)

\* GeminiClient._get_text_generator, then the work of the caller
WithTextGenerator(op) ==
    IF gemini.client.text_generator = "None"
    THEN After(op, "return",
               [gemini.client EXCEPT !.text_generator = "pipeline"],
               [gemini.built EXCEPT !.text_generator = @ + 1])
    ELSE After(op, "return", gemini.client, gemini.built)

\* the API branch of an operation: _make_request returns a text or raises
ViaApi(op, outcome) == After(op, outcome, gemini.client, gemini.built)

Others == <<cmpIn, cmpOut, docIn, docOut, trIn, trOut, ocrIn, ocrOut, apiIn, apiOut, req>>

CanRun == gemini # None /\ gemini.ops < MaxOps

\* GeminiClient.summarize_text
SummarizeText ==
    /\ CanRun
    /\ \E outcome \in {"return", "raise"} :
          gemini' = IF gemini.client.use_local_nlp
                    THEN WithSummarizer("summarize_text")
                    ELSE ViaApi("summarize_text", outcome)
    /\ UNCHANGED Others

\* GeminiClient.cleanup_text
CleanupText ==
    /\ CanRun
    /\ \E outcome \in {"return", "raise"} :
          gemini' = IF gemini.client.use_local_nlp
                    THEN WithTextGenerator("cleanup_text")
                    ELSE ViaApi("cleanup_text", outcome)
    /\ UNCHANGED Others

\* GeminiClient.generate_bullet_points
GenerateBulletPoints ==
    /\ CanRun
    /\ \E outcome \in {"return", "raise"} :
          gemini' = IF gemini.client.use_local_nlp
                    THEN WithTextGenerator("generate_bullet_points")
                    ELSE ViaApi("generate_bullet_points", outcome)
    /\ UNCHANGED Others

\* GeminiClient.compare_documents: the local branch calls
\* self.text_generator(...) itself, and calling None raises TypeError
CompareDocuments ==
    /\ CanRun
    /\ \E outcome \in {"return", "raise"} :
          gemini' = IF gemini.client.use_local_nlp
                    THEN After("compare_documents",
                               IF gemini.client.text_generator = "None"
                               THEN "raise TypeError" ELSE "return",
                               gemini.client, gemini.built)
                    ELSE ViaApi("compare_documents", outcome)
    /\ UNCHANGED Others

\* extract_text_with_easyocr: without EasyOCR it returns None at once; else
\* "reader = easyocr.Reader(languages)" runs in the call, which returns the
\* text, or None when the reader raises or keeps nothing
ExtractTextWithEasyocr ==
    /\ CanRun
    /\ \E outcome \in {"return", "return None"} :
          gemini' = IF ~gemini.EASYOCR_SUPPORT
                    THEN After("extract_text_with_easyocr", "return None",
                               gemini.client, gemini.built)
                    ELSE After("extract_text_with_easyocr", outcome,
                               gemini.client,
                               [gemini.built EXCEPT !.reader = @ + 1])
    /\ UNCHANGED Others

(***************************************************************************)
(* GeminiClient._make_request, one turn of its retry loop per step.  req   *)
(* holds max_retries, what the server does to each POST, the loop index,   *)
(* the POSTs made and how the call ended.                                  *)
(***************************************************************************)
MaxRetries == 3

\* requests.exceptions.RequestException: raised by requests.post (no
\* connection, the 30 s timeout) and by raise_for_status
RequestExceptions == {"timeout", "http_error"}

\* the answers that end in "except Exception": a body that is no JSON, a
\* candidate blocked for SAFETY or RECITATION, no candidate with a text
OtherExceptions == {"bad_json", "SAFETY", "no_candidate"}

ServerAnswers == {"text"} \cup RequestExceptions \cup OtherExceptions

Ended(result) == [req EXCEPT !.pc = "done", !.result = result]

NoReq == <<cmpIn, cmpOut, docIn, docOut, trIn, trOut, ocrIn, ocrOut, apiIn, apiOut, gemini>>

\* "if self.use_local_nlp: return ..." or the start of the loop
MakeRequestStart ==
    /\ req # None
    /\ req.pc = "start"
    /\ req' = IF req.use_local_nlp
              THEN Ended([kind |-> "return",
                          value |-> "Local NLP processing not handled by _make_request directly. Refer to specific methods."])
              ELSE [req EXCEPT !.pc = "loop"]
    /\ UNCHANGED NoReq

\* one turn of "for attempt in range(max_retries)"
MakeRequestAttempt ==
    /\ req # None
    /\ req.pc = "loop"
    /\ req.attempt < req.max_retries
    /\ LET answer == req.answers[req.attempt + 1]
           last == req.attempt = req.max_retries - 1
           posted == [req EXCEPT !.posts = @ + 1]
       IN  req' =
             IF answer = "text"
             THEN [posted EXCEPT !.pc = "done",
                                 !.result = [kind |-> "return", value |-> "candidate text"]]
             ELSE IF last
             THEN [posted EXCEPT !.pc = "done",
                                 !.result = [kind |-> "raise",
                                             value |-> IF answer \in RequestExceptions
                                                       THEN "Failed to connect to Gemini API"
                                                       ELSE "Gemini API error"]]
             ELSE [posted EXCEPT !.attempt = @ + 1]
    /\ UNCHANGED NoReq

\* range(max_retries) is exhausted: the function body ends and the call
\* returns None
MakeRequestFallsOff ==
    /\ req # None
    /\ req.pc = "loop"
    /\ req.attempt >= req.max_retries
    /\ req' = Ended([kind |-> "return", value |-> NoneStr])
    /\ UNCHANGED NoReq

(***************************************************************************)
(* Specifications                                                          *)
(***************************************************************************)
\* a comparison request with any two texts
InitCompare ==
    /\ cmpIn \in [text1 : Texts, text2 : Texts]
    /\ cmpOut = None
    /\ docIn = None
    /\ docOut = None
    /\ trIn = None
    /\ trOut = None
    /\ ocrIn = None
    /\ ocrOut = None
    /\ apiIn = None
    /\ apiOut = None
    /\ gemini = None
    /\ req = None

NextCompare == Compare

SpecCompare == InitCompare /\ [][NextCompare]_vars

\* a call of process_document with any file, or of
\* process_multiple_documents with any batch
InitDocs ==
    /\ cmpIn = None
    /\ cmpOut = None
    /\ docIn \in {[op |-> "process_document", file |-> f] : f \in Files}
             \cup {[op |-> "process_multiple_documents", file_paths |-> b] : b \in Batches}
    /\ docOut = None
    /\ trIn = None
    /\ trOut = None
    /\ ocrIn = None
    /\ ocrOut = None
    /\ apiIn = None
    /\ apiOut = None
    /\ gemini = None
    /\ req = None

NextDocs == ProcessDocument \/ ProcessMultipleDocuments

SpecDocs == InitDocs /\ [][NextDocs]_vars

\* a translation request with any text, target language and behaviour of
\* the services
InitTranslate ==
    /\ cmpIn = None
    /\ cmpOut = None
    /\ docIn = None
    /\ docOut = None
    /\ trIn \in {[op |-> "translate_document",
                  request |-> [has_text |-> h, text |-> t, target_language |-> l],
                  env |-> e] :
                    h \in BOOLEAN, t \in TranslateTexts,
                    l \in {"Spanish", "Hindi", "English", "fr"}, e \in TranslateEnvs}
            \cup {[op |-> "auto_translate_to_english", text |-> t, source |-> l,
                   env |-> e] :
                    t \in TranslateTexts, l \in {"es", "hi"}, e \in AutoEnvs}
    /\ trOut = None
    /\ ocrIn = None
    /\ ocrOut = None
    /\ apiIn = None
    /\ apiOut = None
    /\ gemini = None
    /\ req = None

NextTranslate == TranslateDocument \/ AutoTranslateToEnglish

SpecTranslate == InitTranslate /\ [][NextTranslate]_vars

\* an OCR request: an image or a file, and the installed engines
InitOcr ==
    /\ cmpIn = None
    /\ cmpOut = None
    /\ docIn = None
    /\ docOut = None
    /\ trIn = None
    /\ trOut = None
    /\ ocrIn \in {[op |-> "perform_ocr_with_lang_detect", image |-> i, env |-> e] :
                    i \in OcrImages,
                    e \in [EASYOCR_SUPPORT : BOOLEAN, detect : {"en", "es", "raise"}]}
             \cup {[op |-> "process_ocr", file |-> f, env |-> e] :
                    f \in OcrFiles, e \in OcrEnvs}
             \cup {[op |-> "ImageExtractor.extract", file |-> f] : f \in ImageFiles}
    /\ ocrOut = None
    /\ apiIn = None
    /\ apiOut = None
    /\ gemini = None
    /\ req = None

NextOcr == PerformOcrWithLangDetect \/ ProcessOcr \/ ImageExtract

SpecOcr == InitOcr /\ [][NextOcr]_vars

\* an upload request: a file for POST /api/v2/process, a batch for
\* POST /api/v2/process/batch, a form for POST /api/process
InitApi ==
    /\ cmpIn = None
    /\ cmpOut = None
    /\ docIn = None
    /\ docOut = None
    /\ trIn = None
    /\ trOut = None
    /\ ocrIn = None
    /\ ocrOut = None
    /\ apiIn \in {[op |-> "process_single_document", file |-> u] : u \in UploadKinds}
             \cup {[op |-> "process_multiple_documents", files |-> b] : b \in UploadBatches}
             \cup {[op |-> "flask_process_document", request |-> r] : r \in FlaskRequests}
    /\ apiOut = None
    /\ gemini = None
    /\ req = None

NextApi == ProcessSingleDocument \/ ProcessBatch \/ FlaskProcessDocument

SpecApi == InitApi /\ [][NextApi]_vars

InitTimeout ==
    /\ cmpIn = None
    /\ cmpOut = None
    /\ docIn = None
    /\ docOut = None
    /\ trIn \in {[op |-> "translate_document",
                  request |-> [has_text |-> h, text |-> t, target_language |-> l],
                  env |-> e] :
                    h \in BOOLEAN, t \in TranslateTexts,
                    l \in {"Spanish", "English"}, e \in LiveEnvs}
            \cup {[op |-> "service", service |-> s, text |-> t, source |-> l,
                   answer |-> a] :
                    s \in {"huggingface", "mymemory_en", "googletrans"},
                    t \in {"x", "hola mundo. adios"}, l \in {"es", "hi"},
                    a \in {"ok", "raise", "hang"}}
    /\ trOut = None
    /\ ocrIn = None
    /\ ocrOut = None
    /\ apiIn = None
    /\ apiOut = None
    /\ gemini = None
    /\ req = None

NextTimeout ==
    \/ TranslateStart
    \/ TranslateSend
    \/ TranslateAnswer
    \/ TranslateFinish
    \/ ServiceSend
    \/ ServiceAnswer

\* every request that can take a step takes it
SpecTimeout == InitTimeout /\ [][NextTimeout]_vars /\ WF_vars(NextTimeout)

InitTables ==
    /\ cmpIn = None
    /\ cmpOut = None
    /\ docIn \in {[op |-> op, table |-> t] :
                     op \in {"pdf_tables", "docx_tables"}, t \in RawTables}
            \cup {[op |-> "excel_tables", df |-> df] : df \in Sheets}
    /\ docOut = None
    /\ trIn = None
    /\ trOut = None
    /\ ocrIn = None
    /\ ocrOut = None
    /\ apiIn = None
    /\ apiOut = None
    /\ gemini = None
    /\ req = None

NextTables == PdfTables \/ DocxTables \/ ExcelTables

SpecTables == InitTables /\ [][NextTables]_vars

InitChunks ==
    /\ cmpIn = None
    /\ cmpOut = None
    /\ docIn = None
    /\ docOut = None
    /\ trIn \in {[op |-> "split_text_for_translation", text |-> t, max_length |-> m] :
                    t \in SplitTexts, m \in 1..MaxSplitLen}
            \cup {[op |-> "split_text_for_translation", text |-> t,
                   max_length |-> ServiceMaxLength] : t \in LongTexts}
            \cup {[op |-> "translate_text", text |-> t, target_language |-> l,
                   translator |-> e] :
                    t \in LongTexts, l \in {"es", ""}, e \in Translators}
            \cup {[op |-> "translate_document",
                   request |-> [has_text |-> TRUE, text |-> t, target_language |-> "Spanish"],
                   env |-> e] :
                    t \in LongTexts, e \in TranslateEnvs}
    /\ trOut = None
    /\ ocrIn = None
    /\ ocrOut = None
    /\ apiIn = None
    /\ apiOut = None
    /\ gemini = None
    /\ req = None

NextChunks == SplitTextForTranslation \/ TranslateText \/ TranslateDocument

SpecChunks == InitChunks /\ [][NextChunks]_vars

\* a process with a fresh GeminiClient in either mode, EasyOCR installed or
\* not, running up to MaxOps operations in any order
InitLazy ==
    /\ cmpIn = None
    /\ cmpOut = None
    /\ docIn = None
    /\ docOut = None
    /\ trIn = None
    /\ trOut = None
    /\ ocrIn = None
    /\ ocrOut = None
    /\ apiIn = None
    /\ apiOut = None
    /\ gemini \in {[client |-> GeminiClient(local),
                    EASYOCR_SUPPORT |-> support,
                    built |-> [summarizer |-> 0, text_generator |-> 0, reader |-> 0],
                    last |-> [op |-> NoneStr, outcome |-> NoneStr],
                    ops |-> 0] : local \in BOOLEAN, support \in BOOLEAN}
    /\ req = None

NextLazy ==
    \/ SummarizeText
    \/ CleanupText
    \/ GenerateBulletPoints
    \/ CompareDocuments
    \/ ExtractTextWithEasyocr

SpecLazy == InitLazy /\ [][NextLazy]_vars

\* a call of _make_request with any max_retries from 0 and any answers of
\* the server; every POST ends (answer, error or the 30 s timeout) and the
\* sleeps between the attempts end
InitRequest ==
    /\ cmpIn = None
    /\ cmpOut = None
    /\ docIn = None
    /\ docOut = None
    /\ trIn = None
    /\ trOut = None
    /\ ocrIn = None
    /\ ocrOut = None
    /\ apiIn = None
    /\ apiOut = None
    /\ gemini = None
    /\ req \in {[use_local_nlp |-> local, max_retries |-> n, answers |-> a,
                 attempt |-> 0, posts |-> 0, pc |-> "start", result |-> None] :
                    local \in BOOLEAN, n \in 0..MaxRetries,
                    a \in [1..MaxRetries -> ServerAnswers]}

NextRequest == MakeRequestStart \/ MakeRequestAttempt \/ MakeRequestFallsOff

SpecRequest == InitRequest /\ [][NextRequest]_vars /\ WF_vars(NextRequest)

(***************************************************************************)
(* Claims on the comparison                                                *)
(***************************************************************************)
Compared == cmpOut # None

\* C7: comparing a non-empty text with itself gives a similarity of exactly
\* 100.00 percent and no difference record.
C7_IdenticalTexts ==
    (Compared /\ cmpIn.text1 = cmpIn.text2 /\ cmpIn.text1 # <<>>)
        => (cmpOut.similarity_percentage = 10000 /\ cmpOut.differences = <<>>)

\* a text of several lines, one of them repeated inside it, compared with itself
C7_Witness ==
    /\ Compared
    /\ cmpIn.text1 = <<"a", "\n", "a">>
    /\ cmpIn.text2 = <<"a", "\n", "a">>
    /\ cmpOut.similarity_percentage = 10000

\* C8: the difference records are exactly the indices i below
\* max(len(lines1), len(lines2)) whose two lines differ (a missing line is the
\* empty string), each with line_number i + 1 and the two lines, in
\* increasing order of line_number.
C8_DifferencesExact ==
    Compared =>
        LET lines1 == splitlines(cmpIn.text1)
            lines2 == splitlines(cmpIn.text2)
            n == IF Len(lines1) >= Len(lines2) THEN Len(lines1) ELSE Len(lines2)
            Line(lines, i) == IF i <= Len(lines) THEN lines[i] ELSE <<>>
            d == cmpOut.differences
        IN  /\ \A i \in 1..n :
                (Line(lines1, i) # Line(lines2, i))
                    <=> (\E k \in 1..Len(d) : d[k].line_number = i)
            /\ \A k \in 1..Len(d) :
                /\ d[k].line_number \in 1..n
                /\ d[k].text1 = Line(lines1, d[k].line_number)
                /\ d[k].text2 = Line(lines2, d[k].line_number)
            /\ \A k \in 1..(Len(d) - 1) : d[k].line_number < d[k + 1].line_number

\* a one-line text against a two-line text: one record, for the missing line
C8_Witness ==
    /\ Compared
    /\ cmpIn.text1 = <<"a">>
    /\ cmpIn.text2 = <<"a", "\n", "b">>
    /\ cmpOut.differences = <<[line_number |-> 2, text1 |-> <<>>, text2 |-> <<"b">>]>>

(***************************************************************************)
(* Claims on the DocumentProcessor                                         *)
(***************************************************************************)
DocCalled == docOut # None /\ docIn.op = "process_document"

BatchCalled == docOut # None /\ docIn.op = "process_multiple_documents"

\* an extractor is registered for the extension of the file
HasExtractor(file) == lower(file.suffix) \in DOMAIN extractor_map

\* the parser of the file's format raises on the file
ParseFailure(file) == file.exists /\ file.parse = "raise"

\* C3 as claimed: every parse failure of an existing file with a supported
\* extension and a registered extractor comes back from process_document as a
\* result whose text begins with "Error:" and whose errors list is not empty.
C3_ParseFailureIsErrorText ==
    (DocCalled /\ is_supported(docIn.file) /\ HasExtractor(docIn.file)
               /\ ParseFailure(docIn.file))
        => /\ docOut.kind = "return"
           /\ startswith(docOut.value.text, "Error:")
           /\ docOut.value.errors # NoneList

\* the OCR fallback of PDFExtractor.extract read the PDF its parser rejected
PdfOcrFallback(file) ==
    /\ extractor_map[lower(file.suffix)] = "pdf"
    /\ ~ocr_pdf(file).raised

\* C3 as amended: every such parse failure comes back as a result with a
\* non-empty errors list, no exception propagating; its text begins with
\* "Error:" unless the file is a PDF whose OCR fallback succeeded, and then
\* the result is the OCR text, tagged ocr_fallback.
C3_ParseFailureIsReported ==
    (DocCalled /\ is_supported(docIn.file) /\ HasExtractor(docIn.file)
               /\ ParseFailure(docIn.file))
        => /\ docOut.kind = "return"
           /\ docOut.value.errors # NoneList
           /\ IF PdfOcrFallback(docIn.file)
              THEN /\ docOut.value.processing_method = "ocr_fallback"
                   /\ docOut.value.text = ocr_pdf(docIn.file).text
              ELSE startswith(docOut.value.text, "Error:")

\* a corrupt JSON file, returned as error text with its errors entry
C3_Witness ==
    /\ DocCalled
    /\ docIn.file.suffix = ".json"
    /\ ParseFailure(docIn.file)
    /\ docOut.kind = "return"
    /\ docOut.value.text = "Error: Could not extract text from JSON. bad file"
    /\ docOut.value.errors = <<"JSON processing failed: bad file">>

\* no engine of the file's extractor reads the file
Corrupt(file) ==
    /\ ParseFailure(file)
    /\ (lower(file.suffix) = ".pdf" => ocr_pdf(file).raised)

\* C4: process_multiple_documents returns one result per path, and when
\* exactly file k of the batch is corrupt, result k begins with "Error:" and
\* no other result does.
C4_BatchIsolatesCorruptFile ==
    BatchCalled =>
        LET paths == docIn.file_paths
            results == docOut.value
        IN  /\ docOut.kind = "return"
            /\ Len(results) = Len(paths)
            /\ \A k \in 1..Len(paths) :
                  (/\ is_supported(paths[k])
                   /\ Corrupt(paths[k])
                   /\ \A j \in 1..Len(paths) : j # k => ~Corrupt(paths[j]))
                      => /\ startswith(results[k].text, "Error:")
                         /\ \A j \in 1..Len(paths) :
                               j # k => ~startswith(results[j].text, "Error:")

\* C5: a path with an unsupported extension, existing or not, makes
\* process_document raise the ValueError "Unsupported file type ..." that
\* lists the supported extensions.
C5_UnsupportedRaisesValueError ==
    (DocCalled /\ ~is_supported(docIn.file))
        => /\ docOut.kind = "raise"
           /\ docOut.exception = "ValueError"
           /\ startswith(docOut.message, "Unsupported file type")

\* C6: is_supported accepts exactly the extensions that have an extractor, so
\* process_document finds an extractor for every existing file it accepts.
C6_SupportedIffRegistered ==
    DocCalled =>
        /\ DOMAIN SUPPORTED_EXTENSIONS = get_supported_formats
        /\ (docIn.file.exists /\ is_supported(docIn.file)) => docOut.kind = "return"

\* C10: the ocr_confidence of every result of ImageExtractor.extract and
\* PDFExtractor.extract lies in [0, 100], whatever the engines report.
C10_ConfidenceInRange ==
    (DocCalled /\ docOut.kind = "return" /\ docOut.value.ocr_confidence # None)
        => InPercentRange(docOut.value.ocr_confidence)

(***************************************************************************)
(* Claims on the translation chains                                        *)
(***************************************************************************)
Translated ==
    /\ trOut # None
    /\ trIn.op = "translate_document"
    /\ trOut.status = 200
    /\ trIn.request.target_language \notin {"English", "english"}
    /\ trIn.env.requests_installed

AutoTranslated == trOut # None /\ trIn.op = "auto_translate_to_english"

\* a service of the per-chunk chain did not deliver a translation
ChunkServiceFailed(answer) == answer \in {"fail", "raise"}

\* a whole-text service reported success=false
TextServiceFailed(result) == ~result.success

\* the calls a chain makes when it tries the next service exactly when the
\* current one failed
ChainCalls(services, failed) ==
    LET tried(k) == \A j \in 1..(k - 1) : failed[j]
    IN  SelectSeq(services, LAMBDA s :
            \E k \in 1..Len(services) : services[k] = s /\ tried(k))

\* C1: in both chains the services are attempted in the fixed order, each at
\* most once, the next one exactly when the current one raised or answered
\* without success, and none after the first success.
C1_FallbackOrder ==
    /\ Translated =>
          LET chunks == SliceChunks(trIn.request.text, 0)
              expected(k) ==
                  IF strip(chunks[k]) = "" THEN <<>>
                  ELSE ChainCalls(<<Call("mymemory", k), Call("google", k)>>,
                                  <<ChunkServiceFailed(trIn.env.mymemory[k]),
                                    ChunkServiceFailed(trIn.env.google[k])>>)
          IN  \A k \in 1..Len(chunks) :
                 SelectSeq(trOut.calls, LAMBDA c : c.chunk = k) = expected(k)
    /\ AutoTranslated =>
          trOut.calls =
              ChainCalls(<<"huggingface", "mymemory", "googletrans">>,
                 <<TextServiceFailed(translate_with_huggingface(
                       trIn.text, trIn.source, trIn.env)),
                   TextServiceFailed(translate_with_mymemory(
                       trIn.text, trIn.source, trIn.env)),
                   TextServiceFailed(translate_with_googletrans(
                       trIn.text, trIn.source, trIn.env))>>)

\* C2: when every service fails for a text of a single chunk, the translation
\* reports success and returns exactly the input text.
C2_SoftDegradation ==
    /\ (/\ Translated
        /\ Len(trIn.request.text) <= ChunkSize
        /\ ChunkServiceFailed(trIn.env.mymemory[1])
        /\ ChunkServiceFailed(trIn.env.google[1]))
          => /\ trOut.success
             /\ trOut.translated_text = trIn.request.text
    /\ (/\ AutoTranslated
        /\ Len(trIn.text) <= ServiceMaxLength
        /\ TextServiceFailed(translate_with_huggingface(
               trIn.text, trIn.source, trIn.env))
        /\ TextServiceFailed(translate_with_mymemory(
               trIn.text, trIn.source, trIn.env))
        /\ TextServiceFailed(translate_with_googletrans(
               trIn.text, trIn.source, trIn.env)))
          => trOut.value = Str(trIn.text)

(***************************************************************************)
(* Claims on the OCR                                                       *)
(***************************************************************************)
\* the engines find no text in the image: Tesseract returns a blank string
\* and EasyOCR keeps no reading
NoTextFound(image, env) ==
    /\ ~(image.tess.dual_raises /\ image.tess.eng_raises)
    /\ strip(IF image.tess.dual_raises THEN image.tess.eng ELSE image.tess.dual) = ""
    /\ extract_text_with_easyocr(image, env) = NoneStr

OcrCalled(op) == ocrOut # None /\ ocrIn.op = op

\* a PDF that process_ocr converts to page images, none with any text
BlankPdf ==
    /\ OcrCalled("process_ocr")
    /\ lower(ocrIn.file.suffix) = ".pdf"
    /\ ocrIn.env.PDF_SUPPORT
    /\ ocrIn.env.poppler
    /\ ocrIn.file.convert = "ok"
    /\ ocrIn.file.images # <<>>
    /\ \A i \in 1..Len(ocrIn.file.images) : NoTextFound(ocrIn.file.images[i], ocrIn.env)

\* C9: an image, or a PDF of blank pages, in which the engines find no text
\* yields empty text and a 'no text detected' warning, for
\* perform_ocr_with_lang_detect, for the image and the PDF path of
\* process_ocr, and for ImageExtractor.extract.
C9_BlankGivesEmptyTextAndWarning ==
    /\ (OcrCalled("perform_ocr_with_lang_detect") /\ NoTextFound(ocrIn.image, ocrIn.env))
          => /\ ocrOut.text = ""
             /\ Contains(ocrOut.warning, "No text detected")
    /\ (/\ OcrCalled("process_ocr")
        /\ lower(ocrIn.file.suffix) \in ImageExtensions
        /\ NoTextFound(ocrIn.file.image, ocrIn.env))
          => /\ ocrOut.text = Str("")
             /\ Contains(ocrOut.warning, "No text detected")
    /\ BlankPdf
          => /\ ocrOut.text = Str("")
             /\ Contains(ocrOut.warning, "No text detected")
    /\ (/\ OcrCalled("ImageExtractor.extract")
        /\ ocrIn.file.parse = "ok"
        /\ ocrIn.file.tess.string = "blank"
        /\ Confident(ocrIn.file.easyocr.results) = <<>>)
          => ocrOut.text = ""

(***************************************************************************)
(* Claims on the upload handlers                                           *)
(***************************************************************************)
BatchCalledApi == apiOut # None /\ apiIn.op = "process_multiple_documents"

SingleCalledApi == apiOut # None /\ apiIn.op = "process_single_document"

\* C11: a batch of more than 10 files is answered with the single 400 error
\* "Maximum 10 files allowed ..." and nothing else happens: no file is saved,
\* none is processed, and the response holds no per-file result.
C11_OversizedBatchRejected ==
    (BatchCalledApi /\ Len(apiIn.files) > 10)
        => /\ apiOut.status = 400
           /\ startswith(apiOut.detail, "Maximum 10 files allowed")
           /\ apiOut.body = None
           /\ apiOut.log = <<>>
           /\ apiOut.left = <<>>

\* eleven valid text files, rejected
C11_Witness ==
    /\ BatchCalledApi
    /\ Len(apiIn.files) = 11
    /\ \A k \in 1..11 : apiIn.files[k].filename = "valid.txt"
    /\ apiOut.status = 400
    /\ apiOut.detail = "Maximum 10 files allowed per batch"

\* how often x occurs in the sequence s
Count(s, x) == Cardinality({k \in 1..Len(s) : s[k] = x})

\* the result a file gets when it is submitted alone
OwnResult(upload) == batch_process_multiple_documents(<<upload>>).body.results[1]

C13_NoTemporaryFileLeft ==
    apiOut # None => apiOut.left = <<>>

\* the uploads of the request that are above the maximum size
TooLarge(upload) == upload.size > MAX_FILE_SIZE

\* C14: an upload above MAX_FILE_SIZE is rejected as "File too large" (status
\* 413 on /api/v2/process, a failed result in a batch), and it is neither
\* saved to a temporary file nor handed to process_document.
C14_TooLargeRejectedEarly ==
    /\ (SingleCalledApi /\ TooLarge(apiIn.file))
          => /\ apiOut.status = 413
             /\ startswith(apiOut.detail, "File too large")
             /\ apiOut.log = <<>>
    /\ (BatchCalledApi /\ Len(apiIn.files) \in 1..10)
          => \A k \in 1..Len(apiIn.files) :
                TooLarge(apiIn.files[k])
                   => /\ \E j \in 1..Len(apiOut.body.results) :
                            /\ apiOut.body.results[j].filename = apiIn.files[k].filename
                            /\ ~apiOut.body.results[j].success
                            /\ startswith(apiOut.body.results[j].error, "File too large")
                      /\ \A j \in 1..Len(apiOut.log) :
                            apiOut.log[j].filename # apiIn.files[k].filename

\* a file above the maximum next to a valid one in a batch, and a file of
\* exactly the maximum size accepted
C14_Witness ==
    /\ BatchCalledApi
    /\ Len(apiIn.files) = 3
    /\ apiIn.files[1].filename = "valid.txt"
    /\ apiIn.files[2].filename = "large.txt"
    /\ apiIn.files[3].filename = "limit.txt"
    /\ apiOut.body.processed_count = 2
    /\ apiOut.body.results[1].error = TooLargeMessage

\* C15: results[i] of the batch response is the result of the i-th submitted
\* file, for every batch.
C15_ResultsInSubmissionOrder ==
    (BatchCalledApi /\ Len(apiIn.files) \in 1..10)
        => /\ Len(apiOut.body.results) = Len(apiIn.files)
           /\ \A i \in 1..Len(apiIn.files) :
                 apiOut.body.results[i].filename = apiIn.files[i].filename

\* C16: POST /api/translate with non-empty text sends the text through the
\* translation services and answers success=true with the translation of
\* the first service that succeeds, for every target language, English
\* included.
C16_TranslationUsesServices ==
    (/\ trOut # None
     /\ trIn.op = "translate_document"
     /\ trIn.request.has_text
     /\ strip(trIn.request.text) # ""
     /\ Len(trIn.request.text) <= ChunkSize
     /\ trIn.env.requests_installed
     /\ \/ trIn.env.mymemory[1] = "ok"
        \/ trIn.env.mymemory[1] = "fail" /\ trIn.env.google[1] = "ok")
        => /\ trOut.status = 200
           /\ trOut.success
           /\ trOut.calls # <<>>
           /\ trOut.calls[Len(trOut.calls)].service =
                 (IF trIn.env.mymemory[1] = "ok" THEN "mymemory" ELSE "google")
           /\ Contains(trOut.translated_text,
                       Translation(trIn.request.text,
                                   TargetCode(trIn.request.target_language)))

\* the calls a running request has sent
SentCalls == IF trOut # None /\ trOut.pc # "done" THEN trOut.calls ELSE <<>>

Returned == trOut # None /\ trOut.pc = "done"

\* C17: every call of an external translation service carries a timeout,
\* and therefore every translation request eventually returns, even when a
\* service never responds.
C17_TimeoutsAndTermination ==
    /\ [](\A j \in 1..Len(SentCalls) : SentCalls[j].timeout # NoneStr)
    /\ <>Returned

\* the counts of a result are those of its text
CountsMatchText(content) ==
    /\ content.metadata.word_count = {WordCount(content.text)}
    /\ content.metadata.character_count = {Len(content.text)}

\* C18: in every ExtractedContent returned by an extractor, by
\* process_document or by process_multiple_documents, error results
\* included, word_count is the number of whitespace-separated words of the
\* text and character_count is the length of the text.
C18_CountsDerivedFromText ==
    /\ (DocCalled /\ docOut.kind = "return") => CountsMatchText(docOut.value)
    /\ BatchCalled =>
          \A k \in 1..Len(docOut.value) : CountsMatchText(docOut.value[k])

\* the values of processing_method that name an OCR path
OcrMethods == {"ocr", "ocr_fallback", "tesseract_ocr", "easyocr"}

ConfidenceOnlyWithOcr(content) ==
    content.ocr_confidence # None => content.processing_method \in OcrMethods

\* C19: in every ExtractedContent an extractor returns, ocr_confidence is
\* populated only if processing_method names an OCR path; the results of
\* the extraction without OCR carry no confidence.
C19_ConfidenceOnlyOnOcrPath ==
    /\ (DocCalled /\ docOut.kind = "return") => ConfidenceOnlyWithOcr(docOut.value)
    /\ BatchCalled =>
          \A k \in 1..Len(docOut.value) : ConfidenceOnlyWithOcr(docOut.value[k])

\* a scanned PDF read by OCR carries a confidence, and so does the OCR
\* fallback of a corrupt one in a batch next to a text file without one
C19_Witness ==
    \/ /\ DocCalled
       /\ docOut.kind = "return"
       /\ docOut.value.processing_method = "ocr"
       /\ docOut.value.ocr_confidence # None
    \/ /\ BatchCalled
       /\ Len(docOut.value) = 2
       /\ docOut.value[1].processing_method = "text_extraction"
       /\ docOut.value[1].ocr_confidence = None
       /\ docOut.value[2].processing_method = "ocr_fallback"
       /\ docOut.value[2].ocr_confidence # None

TablesCalled ==
    docOut # None /\ docIn.op \in {"pdf_tables", "docx_tables", "excel_tables"}

\* the data rows of the table that was handed to the extractor
DataRows == IF docIn.op = "excel_tables" THEN Len(docIn.df.rows) ELSE Len(docIn.table) - 1

\* C20: in every table record of the PDF, DOCX and spreadsheet extractors
\* that has a header, every data row has as many cells as the header,
\* 'columns' is the length of the header and 'rows' the number of data rows.
C20_TableShape ==
    TablesCalled =>
        \A t \in 1..Len(docOut.value) :
           LET table == docOut.value[t]
           IN  table.headers # <<>> =>
                  /\ \A k \in 1..Len(table.data) :
                        Cardinality(DOMAIN table.data[k]) = Len(table.headers)
                  /\ table.columns = Len(table.headers)
                  /\ table.rows = DataRows

(***************************************************************************)
(* Claims on the chunks of the translation                                 *)
(***************************************************************************)
\* an entry of the output for a chunk: its translation or the chunk itself
EntryOf(entry, chunk, code) == entry \in {Translation(chunk, code), chunk}

\* C21: the aggregated translation holds exactly one entry per chunk of the
\* input, in chunk order: the translation of the chunk or, where the
\* services failed, the chunk itself; no chunk is dropped.
C21_OneEntryPerChunk ==
    /\ (trOut # None /\ trIn.op = "translate_text" /\ trIn.target_language # "")
          => /\ Len(trOut.translated_chunks) = Len(trOut.chunks)
             /\ \A k \in 1..Len(trOut.chunks) :
                   EntryOf(trOut.translated_chunks[k], trOut.chunks[k],
                           trIn.target_language)
    /\ (/\ trOut # None
        /\ trIn.op = "translate_document"
        /\ trIn.env.requests_installed
        /\ strip(trIn.request.text) # ""
        /\ \A k \in 1..MaxChunks : trIn.env.mymemory[k] # "empty")
          => LET chunks == SliceChunks(trIn.request.text, 0)
                 code == TargetCode(trIn.request.target_language)
                 out == TranslateLoop(chunks, 1, code, trIn.env, <<>>, <<>>).translated_chunks
             IN  /\ Len(out) = Len(chunks)
                 /\ \A k \in 1..Len(chunks) : EntryOf(out[k], chunks[k], code)

\* C22: every chunk of split_text_for_translation(text, max_length) is
\* non-empty and has at most max_length characters, and every chunk built
\* by translate_text is non-empty and has at most 500 characters.
C22_ChunksBounded ==
    /\ (trOut # None /\ trIn.op = "split_text_for_translation")
          => \A k \in 1..Len(trOut.chunks) :
                /\ trOut.chunks[k] # ""
                /\ Len(trOut.chunks[k]) <= trIn.max_length
    /\ (trOut # None /\ trIn.op = "translate_text")
          => \A k \in 1..Len(trOut.chunks) :
                /\ trOut.chunks[k] # ""
                /\ Len(trOut.chunks[k]) <= TranslateTextLimit

(***************************************************************************)
(* Claims on the choice of the OCR engine and of the language              *)
(***************************************************************************)
LangDetectCalled == ocrOut # None /\ ocrIn.op = "perform_ocr_with_lang_detect"

\* Tesseract delivered a text: the pass with eng+hin, or the pass with eng
\* after it
TesseractDelivered == ~(ocrIn.image.tess.dual_raises /\ ocrIn.image.tess.eng_raises)

TesseractOutput ==
    IF ocrIn.image.tess.dual_raises THEN ocrIn.image.tess.eng ELSE ocrIn.image.tess.dual

EasyOutput == extract_text_with_easyocr(ocrIn.image, ocrIn.env)

\* the EasyOCR output is strictly longer than Tesseract's and holds a
\* Devanagari character
EasyLongerAndHindi ==
    /\ EasyOutput # NoneStr
    /\ Len(EasyOutput) > Len(TesseractOutput)
    /\ HasDevanagari(EasyOutput)

\* C23: the final text of perform_ocr_with_lang_detect is the EasyOCR output
\* only when that output is strictly longer than the Tesseract output and
\* holds a Devanagari character; in every other case, EasyOCR unavailable
\* or failing included, it is the Tesseract output.  The result carries the
\* final text as text and original_text; a blank final text is reported as
\* the empty text with the warning that no text was detected.
C23_ChoiceOfEngine ==
    (LangDetectCalled /\ TesseractDelivered)
        => LET chosen == IF EasyLongerAndHindi THEN EasyOutput ELSE TesseractOutput
           IN  IF strip(chosen) = ""
               THEN /\ ocrOut.text = ""
                    /\ ocrOut.warning = "No text detected in the document."
               ELSE /\ ocrOut.text = chosen
                    /\ ocrOut.original_text = chosen

\* both branches happen: EasyOCR's longer Hindi reading is taken, and a
\* Hindi reading that is not longer loses against Tesseract
C23_Witness ==
    /\ LangDetectCalled
    /\ TesseractDelivered
    /\ EasyOutput # NoneStr
    /\ HasDevanagari(EasyOutput)
    /\ \/ Len(EasyOutput) > Len(TesseractOutput) /\ ocrOut.text = EasyOutput
       \/ /\ Len(EasyOutput) <= Len(TesseractOutput)
          /\ strip(TesseractOutput) # ""
          /\ ocrOut.text = TesseractOutput

(***************************************************************************)
(* Claim on the PDF without a text layer                                   *)
(***************************************************************************)
\* fitz opens the PDF and page.get_text() is blank on every page
NoTextLayer(file) ==
    /\ lower(file.suffix) = ".pdf"
    /\ file.exists
    /\ file.parse = "ok"
    /\ PdfTextParts(file.pages, 1) = <<>>

\* C24: whenever the primary text pass of PDFExtractor.extract finds no text
\* on any page, the PDF goes through _ocr_pdf and the call returns, without
\* raising, a result whose processing_method is "ocr" or "ocr_fallback"; the
\* method is "text_extraction" only when the primary pass found text.
C24_NoTextGoesThroughOcr ==
    /\ (DocCalled /\ NoTextLayer(docIn.file))
          => /\ docOut.kind = "return"
             /\ docOut.value.processing_method \in {"ocr", "ocr_fallback"}
    /\ (DocCalled /\ docOut.kind = "return"
                  /\ docOut.value.processing_method = "text_extraction"
                  /\ lower(docIn.file.suffix) = ".pdf")
          => PdfTextParts(docIn.file.pages, 1) # <<>>

(***************************************************************************)
(* Claims on the handles and on the retry loop of GeminiClient             *)
(***************************************************************************)
\* C25: the summarizer, the text generator and the EasyOCR reader are
\* constructed on first use and at most once per process, and an operation
\* that uses a handle finds it initialised, in every order of operations:
\* no handle exists before the first operation, none is built twice, and no
\* operation fails on a handle that is still None.
C25_HandlesLazyAndCached ==
    gemini # None
        => /\ gemini.ops = 0 =>
                 /\ gemini.built = [summarizer |-> 0, text_generator |-> 0, reader |-> 0]
                 /\ gemini.client.summarizer # "pipeline"
                 /\ gemini.client.text_generator # "pipeline"
           /\ gemini.built.summarizer <= 1
           /\ gemini.built.text_generator <= 1
           /\ gemini.built.reader <= 1
           /\ gemini.last.outcome # "raise TypeError"

\* C30: for every max_retries >= 0, _make_request in API mode makes at most
\* max_retries POSTs, none after the first that yields a candidate text,
\* and ends: it returns that text or raises after the last failed attempt,
\* and never returns None.
C30_RetryLoopEnds ==
    /\ [](req # None /\ ~req.use_local_nlp =>
            /\ req.posts <= req.max_retries
            /\ \A k \in 1..req.posts - 1 : req.answers[k] # "text"
            /\ req.pc = "done" =>
                  \/ /\ req.result.kind = "return"
                     /\ req.result.value = "candidate text"
                     /\ req.answers[req.posts] = "text"
                  \/ /\ req.result.kind = "raise"
                     /\ req.posts = req.max_retries
                     /\ req.answers[req.posts] # "text")
    /\ <>(req # None /\ req.pc = "done")

(***************************************************************************)
(* Claim on extraction and translation in process_ocr                      *)
(***************************************************************************)
\* C26: extraction never translates: for every file type process_ocr
\* returns the text it extracted as its text, equal to original_text, and
\* leaves was_translated false, no translation service having been called.
C26_ExtractionNeverTranslates ==
    OcrCalled("process_ocr")
        => /\ ocrOut.original_text # "" => ocrOut.text = Str(ocrOut.original_text)
           /\ ~ocrOut.was_translated

(***************************************************************************)
(* Claim on the letter case of the extension                               *)
(***************************************************************************)
\* the file with its extension in lower case, otherwise the same
LowerCased(file) == [file EXCEPT !.suffix = lower(@)]

\* C27: detection, dispatch and parsing do not depend on the letter case of
\* the extension: a file whose extension differs only in case from a
\* supported one is detected with the lower-case tag and process_document
\* gives what it gives for the same file under the lower-case extension.
C27_ExtensionCaseInsensitive ==
    (DocCalled /\ docIn.file.exists
               /\ lower(docIn.file.suffix) \in DOMAIN SUPPORTED_EXTENSIONS)
        => /\ detect_file_type(docIn.file) = detect_file_type(LowerCased(docIn.file))
           /\ docOut = process_document(LowerCased(docIn.file))

(***************************************************************************)
(* Claim on the failed extraction behind POST /api/process                 *)
(***************************************************************************)
\* the request reached process_ocr: a file with an allowed name was saved
ReachedOcr ==
    /\ apiOut # None
    /\ apiIn.op = "flask_process_document"
    /\ apiIn.request.has_file
    /\ apiIn.request.filename # ""
    /\ allowed_file(apiIn.request.filename)
    /\ apiIn.request.save = "ok"

\* what process_ocr extracted from the file of the request
Extracted ==
    process_ocr([apiIn.request.ocr EXCEPT
                    !.suffix = Suffix(apiIn.request.filename, Len(apiIn.request.filename))],
                apiIn.request.env)

\* the message of a branch or helper of process_ocr that failed
ErrorMessage(text) == startswith(text, "Error")

\* C28: whenever the extraction fails inside process_ocr (a support library
\* is missing, the file cannot be read, a helper returns an error message),
\* POST /api/process answers success=false with a status other than 200;
\* it never answers success=true with an error message as extracted text.
C28_FailedExtractionIsAnError ==
    ReachedOcr
        => /\ (\/ ErrorMessage(Extracted.original_text)
               \/ Extracted.text.type = "str" /\ ErrorMessage(Extracted.text.value))
                 => apiOut.status # 200 /\ ~apiOut.success
           /\ apiOut.success => ~ErrorMessage(apiOut.ocr_result.text.value)

(***************************************************************************)
(* Claim on the language of a Devanagari text                              *)
(***************************************************************************)
\* C29: whenever the final text perform_ocr_with_lang_detect returns holds a
\* Devanagari character, detected_lang_code is "hi" and detected_lang_name
\* is "Hindi", whichever engine gave the text and whatever the language
\* detector answers.
C29_DevanagariIsHindi ==
    (LangDetectCalled /\ HasDevanagari(ocrOut.text))
        => /\ ocrOut.detected_lang_code = "hi"
           /\ ocrOut.detected_lang_name = "Hindi"

====
